---- MODULE Spec2Model ----
(***************************************************************************)
(* A model of the Terablu bytecode interpreter (a clox derivative):        *)
(* the hash table of table.c, the virtual machine of vm.c and the          *)
(* mark-sweep collector of memory.c.                                       *)
(***************************************************************************)
EXTENDS Integers, Sequences, FiniteSets, TLC

(***************************************************************************)
(* Values (value.h).  A Value is a record [t, v]; v is an integer for     *)
(* every tag (a bool is 0 or 1, an object is its heap address).            *)
(***************************************************************************)
NULL == 0

NIL_VAL == [t |-> "nil", v |-> 0]

BOOL_VAL(b) == [t |-> "bool", v |-> IF b THEN 1 ELSE 0]

NUMBER_VAL(n) == [t |-> "num", v |-> n]

OBJ_VAL(a) == [t |-> "obj", v |-> a]

IS_NIL(value) == value.t = "nil"

IS_BOOL(value) == value.t = "bool"

IS_NUMBER(value) == value.t = "num"

IS_OBJ(value) == value.t = "obj"

AS_OBJ(value) == value.v

valuesEqual(a, b) == a.t = b.t /\ a.v = b.v

isFalsey(value) == IS_NIL(value) \/ (IS_BOOL(value) /\ value.v = 0)

(***************************************************************************)
(* 32-bit arithmetic on 16-bit limbs: a hash is <<hi, lo>>.                *)
(***************************************************************************)
RECURSIVE BitAnd(_, _)
BitAnd(a, b) ==
    IF a = 0 \/ b = 0 THEN 0
    ELSE (a % 2) * (b % 2) + 2 * BitAnd(a \div 2, b \div 2)

RECURSIVE BitXor(_, _)
BitXor(a, b) ==
    IF a = 0 THEN b
    ELSE IF b = 0 THEN a
    ELSE ((a + b) % 2) + 2 * BitXor(a \div 2, b \div 2)

FNV_OFFSET == <<33052, 40389>>

FNV_PRIME_LOW == 403

\* hash ^= byte; hash *= 16777619 (= 2^24 + 403), modulo 2^32
hashStep(hash, byte) ==
    LET lo == (hash[2] - (hash[2] % 256)) + BitXor(hash[2] % 256, byte)
        hi == hash[1]
        p  == lo * FNV_PRIME_LOW
    IN  << (hi * FNV_PRIME_LOW + p \div 65536 + (lo % 256) * 256) % 65536,
           p % 65536 >>

RECURSIVE hashFrom(_, _, _)
hashFrom(hash, chars, i) ==
    IF i > Len(chars) THEN hash
    ELSE hashFrom(hashStep(hash, chars[i]), chars, i + 1)

hashString(chars) == hashFrom(FNV_OFFSET, chars, 1)

(***************************************************************************)
(* The hash table (table.c).  entries is a sequence of capacity records   *)
(* [key, value]; C index i is entries[i + 1].  A key is the address of a   *)
(* string object (NULL for none); H maps a key to its hash.                *)
(***************************************************************************)
GROW_CAPACITY(capacity) == IF capacity < 8 THEN 8 ELSE capacity * 2

EmptyEntry == [key |-> NULL, value |-> NIL_VAL]

Tombstone == [key |-> NULL, value |-> BOOL_VAL(TRUE)]

initTable == [count |-> 0, capacity |-> 0, entries |-> <<>>]

\* hash & (capacity - 1)
hashIndex(hash, capacity) == BitAnd(hash[2], capacity - 1)

\* The probe loop of findEntry.  index and tombstone are C indices
\* (tombstone = -1 for NULL).  The result is the C index of the entry, or
\* -1 when the loop has visited every entry without returning.
RECURSIVE findEntryFrom(_, _, _, _, _, _)
\* The probe that returns at a tombstone as at an empty entry.
findEntryUntilTombstone(entries, capacity, key, index, tombstone, visited) ==
    IF visited >= capacity THEN -1
    ELSE LET entry == entries[index + 1]
             next  == BitAnd(index + 1, capacity - 1)
         IN  IF entry.key = NULL \/ entry.key = key
             THEN index
             ELSE findEntryFrom(entries, capacity, key, next, tombstone,
                                visited + 1)

findEntryFrom(entries, capacity, key, index, tombstone, visited) ==
    IF visited >= capacity THEN -1
    ELSE LET entry == entries[index + 1]
             next  == BitAnd(index + 1, capacity - 1)
         IN  IF entry.key = NULL
             THEN IF IS_NIL(entry.value)
                  THEN (IF tombstone # -1 THEN tombstone ELSE index)
                  ELSE findEntryFrom(entries, capacity, key, next,
                                     IF tombstone = -1 THEN index ELSE tombstone,
                                     visited + 1)
             ELSE IF entry.key = key
                  THEN index
                  ELSE findEntryFrom(entries, capacity, key, next, tombstone,
                                     visited + 1)

findEntry(H, entries, capacity, key) ==
    findEntryFrom(entries, capacity, key, hashIndex(H[key], capacity), -1, 0)

\* [found, value]
tableGet(H, table, key) ==
    IF table.count = 0 THEN [found |-> FALSE, value |-> NIL_VAL]
    ELSE LET e == findEntry(H, table.entries, table.capacity, key) IN
         IF table.entries[e + 1].key = NULL
         THEN [found |-> FALSE, value |-> NIL_VAL]
         ELSE [found |-> TRUE, value |-> table.entries[e + 1].value]

\* The re-insertion loop of adjustCapacity, from old index i on.
RECURSIVE adjustFrom(_, _, _, _, _)
adjustFrom(H, old, i, entries, count) ==
    IF i >= old.capacity THEN [entries |-> entries, count |-> count]
    ELSE LET entry == old.entries[i + 1] IN
         IF entry.key = NULL
         THEN adjustFrom(H, old, i + 1, entries, count)
         ELSE LET dest == findEntry(H, entries, Len(entries), entry.key) IN
              adjustFrom(H, old, i + 1,
                         [entries EXCEPT ![dest + 1] = entry], count + 1)

adjustCapacity(H, table, capacity) ==
    LET r == adjustFrom(H, table, 0, [i \in 1..capacity |-> EmptyEntry], 0)
    IN  [count |-> r.count, capacity |-> capacity, entries |-> r.entries]

\* table->count + 1 > table->capacity * TABLE_MAX_LOAD  (0.75 = 3/4)
tableMustGrow(table) == 4 * (table.count + 1) > 3 * table.capacity

tableGrown(H, table) ==
    IF tableMustGrow(table)
    THEN adjustCapacity(H, table, GROW_CAPACITY(table.capacity))
    ELSE table

\* tableSet after the capacity check: [table, isNewKey]
tableStore(H, table, key, value) ==
    LET e        == findEntry(H, table.entries, table.capacity, key)
        entry    == table.entries[e + 1]
        isNewKey == entry.key = NULL
    IN  [table |-> [table EXCEPT
                      !.count = IF isNewKey /\ IS_NIL(entry.value)
                                THEN @ + 1 ELSE @,
                      !.entries[e + 1] = [key |-> key, value |-> value]],
         isNewKey |-> isNewKey]

tableSet(H, table, key, value) == tableStore(H, tableGrown(H, table), key, value)

\* tableDelete that takes the deleted entry off the count.
tableDeleteCounting(H, table, key) ==
    IF table.count = 0 THEN [table |-> table, found |-> FALSE]
    ELSE LET e == findEntry(H, table.entries, table.capacity, key) IN
         IF table.entries[e + 1].key = NULL
         THEN [table |-> table, found |-> FALSE]
         ELSE [table |-> [table EXCEPT !.entries[e + 1] = Tombstone,
                                       !.count = @ - 1],
               found |-> TRUE]

\* [table, found]
tableDelete(H, table, key) ==
    IF table.count = 0 THEN [table |-> table, found |-> FALSE]
    ELSE LET e == findEntry(H, table.entries, table.capacity, key) IN
         IF table.entries[e + 1].key = NULL
         THEN [table |-> table, found |-> FALSE]
         ELSE [table |-> [table EXCEPT !.entries[e + 1] = Tombstone],
               found |-> TRUE]

\* The keys stored in a table, and the map it represents.
tableKeys(table) ==
    {table.entries[i].key : i \in 1..table.capacity} \ {NULL}

\* tableFindString: the probe loop from C index `index` on.  The result is
\* the address of the interned string, or NULL.
RECURSIVE findStringFrom(_, _, _, _, _, _)
\* The probe that gives up at a tombstone as at an empty entry.
findStringUntilTombstone(hp, table, chars, hash, index, visited) ==
    IF visited >= table.capacity THEN NULL
    ELSE LET entry == table.entries[index + 1]
             next  == BitAnd(index + 1, table.capacity - 1)
         IN  IF entry.key = NULL THEN NULL
             ELSE IF /\ hp[entry.key].type = "string"
                     /\ hp[entry.key].chars = chars
                  THEN entry.key
                  ELSE findStringFrom(hp, table, chars, hash, next, visited + 1)

findStringFrom(hp, table, chars, hash, index, visited) ==
    IF visited >= table.capacity THEN NULL
    ELSE LET entry == table.entries[index + 1]
             next  == BitAnd(index + 1, table.capacity - 1)
         IN  IF entry.key = NULL
             THEN IF IS_NIL(entry.value) THEN NULL
                  ELSE findStringFrom(hp, table, chars, hash, next, visited + 1)
             ELSE IF /\ hp[entry.key].type = "string"
                     /\ Len(hp[entry.key].chars) = Len(chars)
                     /\ hp[entry.key].hash = hash
                     /\ hp[entry.key].chars = chars
                  THEN entry.key
                  ELSE findStringFrom(hp, table, chars, hash, next, visited + 1)

tableFindString(hp, table, chars, hash) ==
    IF table.count = 0 THEN NULL
    ELSE findStringFrom(hp, table, chars, hash,
                        hashIndex(hash, table.capacity), 0)

(***************************************************************************)
(* The heap.  An address is a number of 1..MaxObj; heap[a] is the object   *)
(* at a, or FreeObj.  vm.objects is the allocation list, its head first.   *)
(* A reference to a freed address dangles: it reads what the address holds *)
(* now (FreeObj, or the object allocated there since).                     *)
(***************************************************************************)
MaxObj == 18

Addr == 1..MaxObj

FreeObj == [type |-> "free", isMarked |-> FALSE]

\* key->hash, read through a pointer that may not designate a string
hashOf(hp) ==
    [a \in Addr |-> IF hp[a].type = "string" THEN hp[a].hash ELSE <<0, 0>>]

(***************************************************************************)
(* The collector (memory.c).  g is [heap, gray, freed]: the heap with its  *)
(* mark bits, the gray stack, and whether the marking has been handed a    *)
(* pointer to freed memory.                                                *)
(***************************************************************************)
\* markObject without the return on an object that is marked already.
markObjectAgain(g, object) ==
    IF object = NULL THEN g
    ELSE IF g.heap[object].type = "free" THEN [g EXCEPT !.freed = TRUE]
    ELSE [g EXCEPT !.heap[object].isMarked = TRUE,
                   !.gray = Append(@, object)]

markObject(g, object) ==
    IF object = NULL THEN g
    ELSE IF g.heap[object].type = "free" THEN [g EXCEPT !.freed = TRUE]
    ELSE IF g.heap[object].isMarked THEN g
    ELSE [g EXCEPT !.heap[object].isMarked = TRUE,
                   !.gray = Append(@, object)]

markValue(g, value) == IF IS_OBJ(value) THEN markObject(g, AS_OBJ(value)) ELSE g

\* A loop calling markObject on objs[1], objs[2], ... in turn: each
\* unmarked object is marked and pushed on the gray stack where it first
\* occurs.
markObjects(g, objs) ==
    LET white(i) == /\ objs[i] # NULL
                    /\ g.heap[objs[i]].type # "free"
                    /\ ~g.heap[objs[i]].isMarked
                    /\ \A j \in 1..(i - 1) : objs[j] # objs[i]
        first == SelectSeq([i \in 1..Len(objs) |-> i], white)
    IN  [heap  |-> [a \in Addr |->
                      IF \E i \in 1..Len(first) : objs[first[i]] = a
                      THEN [g.heap[a] EXCEPT !.isMarked = TRUE]
                      ELSE g.heap[a]],
         gray  |-> g.gray \o [i \in 1..Len(first) |-> objs[first[i]]],
         freed |-> g.freed \/ \E i \in 1..Len(objs) :
                                 objs[i] # NULL /\ g.heap[objs[i]].type = "free"]

\* the object markValue hands to markObject, if any
objectOf(value) == IF IS_OBJ(value) THEN AS_OBJ(value) ELSE NULL

markArray(g, values) ==
    markObjects(g, [i \in 1..Len(values) |-> objectOf(values[i])])

\* markTable: for each entry in turn, its key and then its value
markTable(g, table) ==
    markObjects(g, [i \in 1..(2 * table.capacity) |->
                      IF i % 2 = 1 THEN table.entries[(i + 1) \div 2].key
                      ELSE objectOf(table.entries[i \div 2].value)])

\* The switch of blackenObject has cases for closures, functions, upvalues,
\* natives and strings only: every other object is left as it is.
blackenObject(g, object) ==
    LET o == g.heap[object] IN
    CASE o.type = "closure" ->
           markObjects(markObject(g, o.function), o.upvalues)
      [] o.type = "function" ->
           markArray(markObject(g, o.name), o.constants)
      [] o.type = "upvalue" -> markValue(g, o.closed)
      [] OTHER -> g

RECURSIVE traceReferences(_)
traceReferences(g) ==
    IF Len(g.gray) = 0 THEN g
    ELSE traceReferences(
           blackenObject([g EXCEPT !.gray = SubSeq(g.gray, 1, Len(g.gray) - 1)],
                         g.gray[Len(g.gray)]))

RECURSIVE markOpenUpvalues(_, _, _)
markOpenUpvalues(g, upvalue, visited) ==
    IF upvalue = NULL \/ visited > MaxObj THEN g
    ELSE markOpenUpvalues(markObject(g, upvalue),
                          IF g.heap[upvalue].type = "upvalue"
                          THEN g.heap[upvalue].next ELSE NULL,
                          visited + 1)

\* markCompilerRoots: the function of the current compiler and of each
\* enclosing one (m.current is that chain, innermost first).
\* markCompilerRoots that marks the function of the current compiler only.
markCompilerRootsOfCurrent(g, current) ==
    markObjects(g, IF current = <<>> THEN <<>> ELSE <<Head(current)>>)

markCompilerRoots(g, current) == markObjects(g, current)

markRoots(m) ==
    LET g0 == [heap |-> m.heap, gray |-> <<>>, freed |-> FALSE]
        g1 == markArray(g0, SubSeq(m.stack, 1, m.stackCount))
        g2 == markObjects(g1, [i \in 1..Len(m.frames) |-> m.frames[i].closure])
        g3 == markOpenUpvalues(g2, m.openUpvalues, 0)
        g4 == markTable(g3, m.globals)
    IN  markCompilerRoots(g4, m.current)

RECURSIVE removeWhiteFrom(_, _, _)
removeWhiteFrom(hp, table, i) ==
    IF i >= table.capacity THEN table
    ELSE LET entry == table.entries[i + 1] IN
         removeWhiteFrom(hp,
            IF entry.key # NULL /\ ~hp[entry.key].isMarked
            THEN tableDelete(hashOf(hp), table, entry.key).table
            ELSE table,
            i + 1)

\* tableRemoveWhite that leaves the entry of index 0 alone.
tableRemoveWhiteAfterFirst(hp, table) == removeWhiteFrom(hp, table, 1)

tableRemoveWhite(hp, table) == removeWhiteFrom(hp, table, 0)

\* freeObject frees closures, functions, natives, strings and upvalues; its
\* switch has no case for the other types, whose memory is not released.
freeObject(o) ==
    IF o.type \in {"closure", "function", "native", "string", "upvalue"}
    THEN FreeObj
    ELSE o

\* The sweep that frees the unmarked objects and leaves the marks set.
sweptHeapMarked(hp, objects) ==
    [a \in Addr |->
        IF (\E i \in 1..Len(objects) : objects[i] = a) /\ ~hp[a].isMarked
        THEN freeObject(hp[a])
        ELSE hp[a]]

sweptHeap(hp, objects) ==
    [a \in Addr |->
        IF \E i \in 1..Len(objects) : objects[i] = a
        THEN IF hp[a].isMarked THEN [hp[a] EXCEPT !.isMarked = FALSE]
             ELSE freeObject(hp[a])
        ELSE hp[a]]

IsMarkedIn(hp, a) == hp[a].isMarked

sweptList(hp, objects) == SelectSeq(objects, LAMBDA a : IsMarkedIn(hp, a))

\* tableRemoveWhite(&vm.strings) and sweep(), once the marking has left g.
sweep(m, g) ==
    [m EXCEPT !.heap = sweptHeap(g.heap, m.objects),
              !.objects = sweptList(g.heap, m.objects),
              !.strings = tableRemoveWhite(g.heap, m.strings),
              !.ub = @ \/ g.freed]

collectGarbage(m) == sweep(m, traceReferences(markRoots(m)))

\* reallocate with newSize > oldSize: DEBUG_STRESS_GC is defined, so every
\* growing call collects first.
reallocate(m) == collectGarbage(m)

(***************************************************************************)
(* The code of a chunk and its line table (chunk.h, chunk.c).  A Chunk is  *)
(* [count, capacity, code, lineCount, lineCapacity, lines]: code is the    *)
(* bytes written (C offset i is code[i + 1]) and lines the LineStart       *)
(* entries [offset, line], one per run of bytes of the same line.          *)
(***************************************************************************)
initChunk ==
    [count |-> 0, capacity |-> 0, code |-> <<>>,
     lineCount |-> 0, lineCapacity |-> 0, lines |-> <<>>]

\* writeChunk that starts a new run only when the line is above the line
\* of the last run.
writeChunkAscending(chunk, byte, line) ==
    LET written == [chunk EXCEPT
                      !.capacity = IF @ < chunk.count + 1 THEN GROW_CAPACITY(@)
                                   ELSE @,
                      !.code = Append(@, byte),
                      !.count = @ + 1]
    IN  IF written.lineCount > 0 /\ written.lines[written.lineCount].line >= line
        THEN written
        ELSE [written EXCEPT
                !.lineCapacity = IF @ < written.lineCount + 1
                                 THEN GROW_CAPACITY(@) ELSE @,
                !.lines = Append(@, [offset |-> written.count - 1, line |-> line]),
                !.lineCount = @ + 1]

writeChunk(chunk, byte, line) ==
    LET written == [chunk EXCEPT
                      !.capacity = IF @ < chunk.count + 1 THEN GROW_CAPACITY(@)
                                   ELSE @,
                      !.code = Append(@, byte),
                      !.count = @ + 1]
    IN  IF written.lineCount > 0 /\ written.lines[written.lineCount].line = line
        THEN written
        ELSE [written EXCEPT
                !.lineCapacity = IF @ < written.lineCount + 1
                                 THEN GROW_CAPACITY(@) ELSE @,
                !.lines = Append(@, [offset |-> written.count - 1, line |-> line]),
                !.lineCount = @ + 1]

\* (start + end) / 2 of two ints: C division truncates toward zero.
midpoint(start, end) ==
    IF start + end >= 0 THEN (start + end) \div 2 ELSE -((-(start + end)) \div 2)

\* The loop of getLine from [start, end], `steps` iterations done.  The
\* result is [returns, line]: returns is FALSE when the loop reads outside
\* the entries written or has not returned after more iterations than
\* there are entries.
RECURSIVE getLineFrom(_, _, _, _, _)
getLineFrom(chunk, instruction, start, end, steps) ==
    LET mid == midpoint(start, end) IN
    IF steps > chunk.lineCount \/ mid < 0 \/ mid >= chunk.lineCount
    THEN [returns |-> FALSE, line |-> 0]
    ELSE IF instruction < chunk.lines[mid + 1].offset
    THEN getLineFrom(chunk, instruction, start, mid - 1, steps + 1)
    ELSE IF mid = chunk.lineCount - 1 \/ instruction < chunk.lines[mid + 2].offset
    THEN [returns |-> TRUE, line |-> chunk.lines[mid + 1].line]
    ELSE getLineFrom(chunk, instruction, mid + 1, end, steps + 1)

getLine(chunk, instruction) ==
    getLineFrom(chunk, instruction, 0, chunk.lineCount - 1, 0)

(***************************************************************************)
(* The programs interpreted.  Each is given by its source text, the        *)
(* events of its compilation and the chunks the compiler emits for it      *)
(* (the chunk of the script first, then one per function in the order the  *)
(* functions begin).  The programs that are run to their end start with    *)
(* the statement `1;`, which makes the first constant of the script a      *)
(* number.                                                                 *)
(***************************************************************************)
I(op, a, uv) == [op |-> op, a |-> a, uv |-> uv]

Ev(e, s, n) == [e |-> e, s |-> s, n |-> n, k |-> 0, arity |-> 0, uvc |-> 0]

EvFun(s, k, arity, uvc) ==
    [e |-> "fun", s |-> s, n |-> 0, k |-> k, arity |-> arity, uvc |-> uvc]

Chunks ==
    <<
       \* chunk 1
       <<
         I("OP_CONSTANT", 0, <<>>), I("OP_POP", 0, <<>>),
         I("OP_CONSTANT", 2, <<>>), I("OP_CONSTANT", 3, <<>>),
         I("OP_ADD", 0, <<>>), I("OP_DEFINE_GLOBAL", 1, <<>>),
         I("OP_CONSTANT", 5, <<>>), I("OP_DEFINE_GLOBAL", 4, <<>>),
         I("OP_NIL", 0, <<>>), I("OP_RETURN", 0, <<>>)
       >>,
       \* chunk 2
       <<
         I("OP_CONSTANT", 0, <<>>), I("OP_POP", 0, <<>>),
         I("OP_CONSTANT", 1, <<>>), I("OP_POP", 0, <<>>),
         I("OP_CONSTANT", 3, <<>>), I("OP_DEFINE_GLOBAL", 2, <<>>),
         I("OP_NIL", 0, <<>>), I("OP_DEFINE_GLOBAL", 4, <<>>),
         I("OP_NIL", 0, <<>>), I("OP_RETURN", 0, <<>>)
       >>,
       \* chunk 3
       <<
         I("OP_CONSTANT", 0, <<>>), I("OP_POP", 0, <<>>),
         I("OP_CONSTANT", 2, <<>>), I("OP_SET_GLOBAL", 1, <<>>),
         I("OP_POP", 0, <<>>), I("OP_NIL", 0, <<>>), I("OP_RETURN", 0, <<>>)
       >>,
       \* chunk 4
       <<
         I("OP_CONSTANT", 0, <<>>), I("OP_POP", 0, <<>>),
         I("OP_GET_GLOBAL", 1, <<>>), I("OP_POP", 0, <<>>),
         I("OP_NIL", 0, <<>>), I("OP_RETURN", 0, <<>>)
       >>,
       \* chunk 5
       <<
         I("OP_CONSTANT", 0, <<>>), I("OP_POP", 0, <<>>),
         I("OP_NIL", 0, <<>>), I("OP_DEFINE_GLOBAL", 1, <<>>),
         I("OP_CLOSURE", 3, <<>>), I("OP_DEFINE_GLOBAL", 2, <<>>),
         I("OP_GET_GLOBAL", 2, <<>>), I("OP_CALL", 0, <<>>),
         I("OP_POP", 0, <<>>), I("OP_NIL", 0, <<>>), I("OP_RETURN", 0, <<>>)
       >>,
       \* chunk 6
       <<
         I("OP_CONSTANT", 0, <<>>), I("OP_CONSTANT", 1, <<>>),
         I("OP_POP", 0, <<>>), I("OP_CLOSURE", 2, << <<1, 1>> >>),
         I("OP_GET_LOCAL", 2, <<>>), I("OP_SET_GLOBAL", 1, <<>>),
         I("OP_POP", 0, <<>>), I("OP_NIL", 0, <<>>), I("OP_CALL", 0, <<>>),
         I("OP_POP", 0, <<>>), I("OP_NIL", 0, <<>>), I("OP_RETURN", 0, <<>>)
       >>,
       \* chunk 7
       <<
         I("OP_GET_UPVALUE", 0, <<>>), I("OP_RETURN", 0, <<>>),
         I("OP_NIL", 0, <<>>), I("OP_RETURN", 0, <<>>)
       >>,
       \* chunk 8
       <<
         I("OP_CONSTANT", 0, <<>>), I("OP_POP", 0, <<>>),
         I("OP_NIL", 0, <<>>), I("OP_DEFINE_GLOBAL", 1, <<>>),
         I("OP_CLOSURE", 3, <<>>), I("OP_DEFINE_GLOBAL", 2, <<>>),
         I("OP_GET_GLOBAL", 2, <<>>), I("OP_CALL", 0, <<>>),
         I("OP_POP", 0, <<>>), I("OP_GET_GLOBAL", 1, <<>>),
         I("OP_CALL", 0, <<>>), I("OP_POP", 0, <<>>), I("OP_NIL", 0, <<>>),
         I("OP_RETURN", 0, <<>>)
       >>,
       \* chunk 9
       <<
         I("OP_CONSTANT", 0, <<>>), I("OP_CONSTANT", 1, <<>>),
         I("OP_POP", 0, <<>>), I("OP_CLOSURE", 2, << <<1, 1>> >>),
         I("OP_GET_LOCAL", 2, <<>>), I("OP_SET_GLOBAL", 1, <<>>),
         I("OP_POP", 0, <<>>), I("OP_NIL", 0, <<>>), I("OP_RETURN", 0, <<>>)
       >>,
       \* chunk 10
       <<
         I("OP_GET_UPVALUE", 0, <<>>), I("OP_RETURN", 0, <<>>),
         I("OP_NIL", 0, <<>>), I("OP_RETURN", 0, <<>>)
       >>,
       \* chunk 11
       <<
         I("OP_CONSTANT", 0, <<>>), I("OP_POP", 0, <<>>),
         I("OP_GET_GLOBAL", 1, <<>>), I("OP_CALL", 0, <<>>),
         I("OP_POP", 0, <<>>), I("OP_NIL", 0, <<>>), I("OP_RETURN", 0, <<>>)
       >>,
       \* chunk 12
       <<
         I("OP_CONSTANT", 0, <<>>), I("OP_POP", 0, <<>>),
         I("OP_NIL", 0, <<>>), I("OP_DEFINE_GLOBAL", 1, <<>>),
         I("OP_CONSTANT", 2, <<>>), I("OP_CONSTANT", 3, <<>>),
         I("OP_SET_LOCAL", 1, <<>>), I("OP_POP", 0, <<>>),
         I("OP_CLOSURE", 4, << <<1, 1>> >>), I("OP_GET_LOCAL", 2, <<>>),
         I("OP_SET_GLOBAL", 1, <<>>), I("OP_POP", 0, <<>>),
         I("OP_POP", 0, <<>>), I("OP_CLOSE_UPVALUE", 0, <<>>),
         I("OP_NIL", 0, <<>>), I("OP_RETURN", 0, <<>>)
       >>,
       \* chunk 13
       <<
         I("OP_CONSTANT", 0, <<>>), I("OP_SET_UPVALUE", 0, <<>>),
         I("OP_POP", 0, <<>>), I("OP_GET_UPVALUE", 0, <<>>),
         I("OP_RETURN", 0, <<>>), I("OP_NIL", 0, <<>>),
         I("OP_RETURN", 0, <<>>)
       >>,
       \* chunk 14
       <<
         I("OP_CONSTANT", 0, <<>>), I("OP_POP", 0, <<>>),
         I("OP_CLASS", 1, <<>>), I("OP_DEFINE_GLOBAL", 1, <<>>),
         I("OP_GET_GLOBAL", 1, <<>>), I("OP_CLOSURE", 3, <<>>),
         I("OP_METHOD", 2, <<>>), I("OP_POP", 0, <<>>),
         I("OP_GET_GLOBAL", 1, <<>>), I("OP_CALL", 0, <<>>),
         I("OP_DEFINE_GLOBAL", 4, <<>>), I("OP_NIL", 0, <<>>),
         I("OP_RETURN", 0, <<>>)
       >>,
       \* chunk 15
       <<
         I("OP_NIL", 0, <<>>), I("OP_RETURN", 0, <<>>)
       >>,
       \* chunk 16
       <<
         I("OP_CONSTANT", 0, <<>>), I("OP_POP", 0, <<>>),
         I("OP_DEFINE_GLOBAL", 1, <<>>), I("OP_NIL", 0, <<>>),
         I("OP_RETURN", 0, <<>>)
       >>,
       \* chunk 17
       <<
         I("OP_CONSTANT", 0, <<>>), I("OP_POP", 0, <<>>),
         I("OP_CLOSURE", 2, <<>>), I("OP_DEFINE_GLOBAL", 1, <<>>),
         I("OP_GET_GLOBAL", 1, <<>>), I("OP_CALL", 0, <<>>),
         I("OP_POP", 0, <<>>), I("OP_NIL", 0, <<>>), I("OP_RETURN", 0, <<>>)
       >>,
       \* chunk 18
       <<
         I("OP_CONSTANT", 0, <<>>), I("OP_POP", 0, <<>>),
         I("OP_CONSTANT", 1, <<>>), I("OP_POP", 0, <<>>),
         I("OP_GET_GLOBAL", 1, <<>>), I("OP_CALL", 0, <<>>),
         I("OP_POP", 0, <<>>), I("OP_NIL", 0, <<>>), I("OP_RETURN", 0, <<>>)
       >>,
       \* chunk 19
       <<
         I("OP_CONSTANT", 0, <<>>), I("OP_POP", 0, <<>>),
         I("OP_CLOSURE", 2, <<>>), I("OP_DEFINE_GLOBAL", 1, <<>>),
         I("OP_GET_GLOBAL", 1, <<>>), I("OP_CALL", 0, <<>>),
         I("OP_POP", 0, <<>>), I("OP_NIL", 0, <<>>), I("OP_RETURN", 0, <<>>)
       >>,
       \* chunk 20
       <<
         I("OP_NIL", 0, <<>>), I("OP_RETURN", 0, <<>>)
       >>,
       \* chunk 21
       <<
         I("OP_CONSTANT", 0, <<>>), I("OP_POP", 0, <<>>),
         I("OP_CLOSURE", 2, <<>>), I("OP_DEFINE_GLOBAL", 1, <<>>),
         I("OP_GET_GLOBAL", 1, <<>>), I("OP_CONSTANT", 3, <<>>),
         I("OP_CALL", 1, <<>>), I("OP_POP", 0, <<>>), I("OP_NIL", 0, <<>>),
         I("OP_RETURN", 0, <<>>)
       >>,
       \* chunk 22
       <<
         I("OP_NIL", 0, <<>>), I("OP_RETURN", 0, <<>>)
       >>,
       \* chunk 23
       <<
         I("OP_CONSTANT", 0, <<>>), I("OP_POP", 0, <<>>),
         I("OP_CONSTANT", 1, <<>>), I("OP_CONSTANT", 2, <<>>),
         I("OP_ADD", 0, <<>>), I("OP_POP", 0, <<>>), I("OP_NIL", 0, <<>>),
         I("OP_RETURN", 0, <<>>)
       >>,
       \* chunk 24
       <<
         I("OP_CONSTANT", 0, <<>>), I("OP_POP", 0, <<>>),
         I("OP_CLASS", 1, <<>>), I("OP_DEFINE_GLOBAL", 1, <<>>),
         I("OP_GET_GLOBAL", 1, <<>>), I("OP_CLOSURE", 3, <<>>),
         I("OP_METHOD", 2, <<>>), I("OP_POP", 0, <<>>),
         I("OP_CLASS", 4, <<>>), I("OP_DEFINE_GLOBAL", 4, <<>>),
         I("OP_GET_GLOBAL", 1, <<>>), I("OP_GET_GLOBAL", 4, <<>>),
         I("OP_INHERIT", 0, <<>>), I("OP_GET_GLOBAL", 4, <<>>),
         I("OP_POP", 0, <<>>), I("OP_POP", 0, <<>>), I("OP_NIL", 0, <<>>),
         I("OP_RETURN", 0, <<>>)
       >>,
       \* chunk 25
       <<
         I("OP_NIL", 0, <<>>), I("OP_RETURN", 0, <<>>)
       >>,
       \* chunk 26
       <<
         I("OP_CONSTANT", 0, <<>>), I("OP_POP", 0, <<>>),
         I("OP_CLASS", 1, <<>>), I("OP_DEFINE_GLOBAL", 1, <<>>),
         I("OP_GET_GLOBAL", 1, <<>>), I("OP_CLOSURE", 3, <<>>),
         I("OP_METHOD", 2, <<>>), I("OP_POP", 0, <<>>),
         I("OP_GET_GLOBAL", 1, <<>>), I("OP_CALL", 0, <<>>),
         I("OP_POP", 0, <<>>), I("OP_NIL", 0, <<>>), I("OP_RETURN", 0, <<>>)
       >>,
       \* chunk 27
       <<
         I("OP_GET_LOCAL", 0, <<>>), I("OP_RETURN", 0, <<>>)
       >>,
       \* chunk 28
       <<
         I("OP_CONSTANT", 0, <<>>), I("OP_POP", 0, <<>>),
         I("OP_CLASS", 1, <<>>), I("OP_DEFINE_GLOBAL", 1, <<>>),
         I("OP_GET_GLOBAL", 1, <<>>), I("OP_CLOSURE", 3, <<>>),
         I("OP_METHOD", 2, <<>>), I("OP_POP", 0, <<>>),
         I("OP_GET_GLOBAL", 1, <<>>), I("OP_CALL", 0, <<>>),
         I("OP_POP", 0, <<>>), I("OP_NIL", 0, <<>>), I("OP_RETURN", 0, <<>>)
       >>,
       \* chunk 29
       <<
         I("OP_NIL", 0, <<>>), I("OP_RETURN", 0, <<>>)
       >>,
       \* chunk 30
       <<
         I("OP_CONSTANT", 0, <<>>), I("OP_POP", 0, <<>>),
         I("OP_CLASS", 1, <<>>), I("OP_DEFINE_GLOBAL", 1, <<>>),
         I("OP_GET_GLOBAL", 1, <<>>), I("OP_POP", 0, <<>>),
         I("OP_GET_GLOBAL", 1, <<>>), I("OP_CALL", 0, <<>>),
         I("OP_POP", 0, <<>>), I("OP_GET_GLOBAL", 1, <<>>),
         I("OP_CONSTANT", 2, <<>>), I("OP_CALL", 1, <<>>),
         I("OP_POP", 0, <<>>), I("OP_NIL", 0, <<>>), I("OP_RETURN", 0, <<>>)
       >>,
       \* chunk 31
       <<
         I("OP_CONSTANT", 0, <<>>), I("OP_POP", 0, <<>>),
         I("OP_CLASS", 1, <<>>), I("OP_DEFINE_GLOBAL", 1, <<>>),
         I("OP_GET_GLOBAL", 1, <<>>), I("OP_CLOSURE", 3, <<>>),
         I("OP_METHOD", 2, <<>>), I("OP_POP", 0, <<>>),
         I("OP_GET_GLOBAL", 1, <<>>), I("OP_CALL", 0, <<>>),
         I("OP_DEFINE_GLOBAL", 4, <<>>), I("OP_GET_GLOBAL", 4, <<>>),
         I("OP_GET_PROPERTY", 2, <<>>), I("OP_POP", 0, <<>>),
         I("OP_GET_GLOBAL", 4, <<>>), I("OP_INVOKE", 2, << 0 >>),
         I("OP_POP", 0, <<>>), I("OP_NIL", 0, <<>>), I("OP_RETURN", 0, <<>>)
       >>,
       \* chunk 32
       <<
         I("OP_NIL", 0, <<>>), I("OP_RETURN", 0, <<>>)
       >>,
       \* chunk 33
       <<
         I("OP_CONSTANT", 0, <<>>), I("OP_POP", 0, <<>>),
         I("OP_CLOSURE", 2, <<>>), I("OP_DEFINE_GLOBAL", 1, <<>>),
         I("OP_CLASS", 3, <<>>), I("OP_DEFINE_GLOBAL", 3, <<>>),
         I("OP_GET_GLOBAL", 3, <<>>), I("OP_CLOSURE", 4, <<>>),
         I("OP_METHOD", 1, <<>>), I("OP_POP", 0, <<>>),
         I("OP_GET_GLOBAL", 3, <<>>), I("OP_CALL", 0, <<>>),
         I("OP_DEFINE_GLOBAL", 5, <<>>), I("OP_GET_GLOBAL", 5, <<>>),
         I("OP_GET_GLOBAL", 1, <<>>), I("OP_SET_PROPERTY", 1, <<>>),
         I("OP_POP", 0, <<>>), I("OP_GET_GLOBAL", 5, <<>>),
         I("OP_GET_PROPERTY", 1, <<>>), I("OP_POP", 0, <<>>),
         I("OP_GET_GLOBAL", 5, <<>>), I("OP_INVOKE", 1, << 0 >>),
         I("OP_POP", 0, <<>>), I("OP_NIL", 0, <<>>), I("OP_RETURN", 0, <<>>)
       >>,
       \* chunk 34
       <<
         I("OP_NIL", 0, <<>>), I("OP_RETURN", 0, <<>>)
       >>,
       \* chunk 35
       <<
         I("OP_NIL", 0, <<>>), I("OP_RETURN", 0, <<>>)
       >>,
       \* chunk 36
       <<
         I("OP_CONSTANT", 0, <<>>), I("OP_POP", 0, <<>>),
         I("OP_CONSTANT", 1, <<>>), I("OP_CONSTANT", 2, <<>>),
         I("OP_DIVIDE", 0, <<>>), I("OP_POP", 0, <<>>), I("OP_NIL", 0, <<>>),
         I("OP_RETURN", 0, <<>>)
       >>,
       \* chunk 37
       <<
         I("OP_CONSTANT", 0, <<>>), I("OP_POP", 0, <<>>),
         I("OP_CONSTANT", 1, <<>>), I("OP_CONSTANT", 2, <<>>),
         I("OP_MODULUS", 0, <<>>), I("OP_POP", 0, <<>>),
         I("OP_NIL", 0, <<>>), I("OP_RETURN", 0, <<>>)
       >>,
       \* chunk 38
       <<
         I("OP_CONSTANT", 0, <<>>), I("OP_POP", 0, <<>>),
         I("OP_CONSTANT", 1, <<>>), I("OP_CONSTANT", 2, <<>>),
         I("OP_DIVIDE", 0, <<>>), I("OP_POP", 0, <<>>), I("OP_NIL", 0, <<>>),
         I("OP_RETURN", 0, <<>>)
       >>,
       \* chunk 39
       <<
         I("OP_CONSTANT", 0, <<>>), I("OP_POP", 0, <<>>),
         I("OP_NIL", 0, <<>>), I("OP_CONSTANT", 1, <<>>),
         I("OP_DIVIDE", 0, <<>>), I("OP_POP", 0, <<>>), I("OP_NIL", 0, <<>>),
         I("OP_RETURN", 0, <<>>)
       >>,
       \* chunk 40
       <<
         I("OP_CONSTANT", 0, <<>>), I("OP_POP", 0, <<>>),
         I("OP_CLASS", 1, <<>>), I("OP_DEFINE_GLOBAL", 1, <<>>),
         I("OP_GET_GLOBAL", 1, <<>>), I("OP_POP", 0, <<>>),
         I("OP_GET_GLOBAL", 1, <<>>), I("OP_CALL", 0, <<>>),
         I("OP_DEFINE_GLOBAL", 2, <<>>), I("OP_GET_GLOBAL", 2, <<>>),
         I("OP_CONSTANT", 4, <<>>), I("OP_SET_PROPERTY", 3, <<>>),
         I("OP_POP", 0, <<>>), I("OP_GET_GLOBAL", 2, <<>>),
         I("OP_CONSTANT", 6, <<>>), I("OP_SET_PROPERTY", 5, <<>>),
         I("OP_POP", 0, <<>>), I("OP_GET_GLOBAL", 7, <<>>),
         I("OP_GET_GLOBAL", 2, <<>>), I("OP_CONSTANT", 8, <<>>),
         I("OP_CALL", 2, <<>>), I("OP_POP", 0, <<>>),
         I("OP_GET_GLOBAL", 7, <<>>), I("OP_GET_GLOBAL", 2, <<>>),
         I("OP_CONSTANT", 9, <<>>), I("OP_CALL", 2, <<>>),
         I("OP_POP", 0, <<>>), I("OP_GET_GLOBAL", 2, <<>>),
         I("OP_GET_PROPERTY", 5, <<>>), I("OP_POP", 0, <<>>),
         I("OP_GET_GLOBAL", 2, <<>>), I("OP_GET_PROPERTY", 3, <<>>),
         I("OP_POP", 0, <<>>), I("OP_NIL", 0, <<>>), I("OP_RETURN", 0, <<>>)
       >>,
       \* chunk 41
       <<
         I("OP_CONSTANT", 0, <<>>), I("OP_POP", 0, <<>>),
         I("OP_CLASS", 1, <<>>), I("OP_DEFINE_GLOBAL", 1, <<>>),
         I("OP_GET_GLOBAL", 1, <<>>), I("OP_POP", 0, <<>>),
         I("OP_GET_GLOBAL", 1, <<>>), I("OP_CALL", 0, <<>>),
         I("OP_DEFINE_GLOBAL", 2, <<>>), I("OP_GET_GLOBAL", 2, <<>>),
         I("OP_CONSTANT", 4, <<>>), I("OP_SET_PROPERTY", 3, <<>>),
         I("OP_POP", 0, <<>>), I("OP_GET_GLOBAL", 5, <<>>),
         I("OP_GET_GLOBAL", 2, <<>>), I("OP_CALL", 1, <<>>),
         I("OP_POP", 0, <<>>), I("OP_GET_GLOBAL", 5, <<>>),
         I("OP_CONSTANT", 6, <<>>), I("OP_CONSTANT", 7, <<>>),
         I("OP_CALL", 2, <<>>), I("OP_POP", 0, <<>>),
         I("OP_GET_GLOBAL", 5, <<>>), I("OP_GET_GLOBAL", 2, <<>>),
         I("OP_CONSTANT", 8, <<>>), I("OP_CALL", 2, <<>>),
         I("OP_POP", 0, <<>>), I("OP_GET_GLOBAL", 5, <<>>),
         I("OP_GET_GLOBAL", 2, <<>>), I("OP_CONSTANT", 9, <<>>),
         I("OP_CONSTANT", 10, <<>>), I("OP_CALL", 3, <<>>),
         I("OP_POP", 0, <<>>), I("OP_GET_GLOBAL", 2, <<>>),
         I("OP_GET_PROPERTY", 3, <<>>), I("OP_POP", 0, <<>>),
         I("OP_NIL", 0, <<>>), I("OP_RETURN", 0, <<>>)
       >>,
       \* chunk 42
       <<
         I("OP_CONSTANT", 0, <<>>), I("OP_POP", 0, <<>>),
         I("OP_CLASS", 1, <<>>), I("OP_DEFINE_GLOBAL", 1, <<>>),
         I("OP_GET_GLOBAL", 1, <<>>), I("OP_POP", 0, <<>>),
         I("OP_GET_GLOBAL", 1, <<>>), I("OP_CALL", 0, <<>>),
         I("OP_DEFINE_GLOBAL", 2, <<>>), I("OP_GET_GLOBAL", 2, <<>>),
         I("OP_CONSTANT", 4, <<>>), I("OP_SET_PROPERTY", 3, <<>>),
         I("OP_POP", 0, <<>>), I("OP_GET_GLOBAL", 1, <<>>),
         I("OP_CALL", 0, <<>>), I("OP_DEFINE_GLOBAL", 5, <<>>),
         I("OP_GET_GLOBAL", 5, <<>>), I("OP_CONSTANT", 6, <<>>),
         I("OP_SET_PROPERTY", 3, <<>>), I("OP_POP", 0, <<>>),
         I("OP_GET_GLOBAL", 7, <<>>), I("OP_GET_GLOBAL", 2, <<>>),
         I("OP_CONSTANT", 8, <<>>), I("OP_CALL", 2, <<>>),
         I("OP_POP", 0, <<>>), I("OP_GET_GLOBAL", 5, <<>>),
         I("OP_GET_PROPERTY", 3, <<>>), I("OP_POP", 0, <<>>),
         I("OP_NIL", 0, <<>>), I("OP_RETURN", 0, <<>>)
       >>,
       \* chunk 43
       <<
         I("OP_CONSTANT", 0, <<>>), I("OP_POP", 0, <<>>),
         I("OP_CLASS", 1, <<>>), I("OP_DEFINE_GLOBAL", 1, <<>>),
         I("OP_GET_GLOBAL", 1, <<>>), I("OP_POP", 0, <<>>),
         I("OP_GET_GLOBAL", 1, <<>>), I("OP_CALL", 0, <<>>),
         I("OP_DEFINE_GLOBAL", 2, <<>>), I("OP_GET_GLOBAL", 2, <<>>),
         I("OP_CONSTANT", 4, <<>>), I("OP_SET_PROPERTY", 3, <<>>),
         I("OP_POP", 0, <<>>), I("OP_GET_GLOBAL", 5, <<>>),
         I("OP_GET_GLOBAL", 2, <<>>), I("OP_CONSTANT", 6, <<>>),
         I("OP_CALL", 2, <<>>), I("OP_POP", 0, <<>>),
         I("OP_GET_GLOBAL", 2, <<>>), I("OP_GET_PROPERTY", 3, <<>>),
         I("OP_POP", 0, <<>>), I("OP_NIL", 0, <<>>), I("OP_RETURN", 0, <<>>)
       >>,
       \* chunk 44
       <<
         I("OP_CONSTANT", 0, <<>>), I("OP_POP", 0, <<>>),
         I("OP_NIL", 0, <<>>), I("OP_RETURN", 0, <<>>)
       >>,
       \* chunk 45
       <<
         I("OP_NIL", 0, <<>>), I("OP_DEFINE_GLOBAL", 0, <<>>),
         I("OP_NIL", 0, <<>>), I("OP_RETURN", 0, <<>>)
       >>,
       \* chunk 46
       <<
         I("OP_CONSTANT", 0, <<>>), I("OP_POP", 0, <<>>),
         I("OP_CONSTANT", 1, <<>>), I("OP_POP", 0, <<>>),
         I("OP_CONSTANT", 2, <<>>), I("OP_POP", 0, <<>>),
         I("OP_CONSTANT", 3, <<>>), I("OP_POP", 0, <<>>),
         I("OP_CONSTANT", 4, <<>>), I("OP_POP", 0, <<>>),
         I("OP_CONSTANT", 5, <<>>), I("OP_POP", 0, <<>>),
         I("OP_CONSTANT", 6, <<>>), I("OP_POP", 0, <<>>),
         I("OP_CLOSURE", 8, <<>>), I("OP_DEFINE_GLOBAL", 7, <<>>),
         I("OP_NIL", 0, <<>>), I("OP_RETURN", 0, <<>>)
       >>,
       \* chunk 47
       <<
         I("OP_NIL", 0, <<>>), I("OP_RETURN", 0, <<>>)
       >>,
       \* chunk 48
       <<
         I("OP_CONSTANT", 0, <<>>), I("OP_POP", 0, <<>>),
         I("OP_CONSTANT", 1, <<>>), I("OP_POP", 0, <<>>),
         I("OP_CONSTANT", 2, <<>>), I("OP_POP", 0, <<>>),
         I("OP_CONSTANT", 3, <<>>), I("OP_POP", 0, <<>>),
         I("OP_CONSTANT", 4, <<>>), I("OP_POP", 0, <<>>),
         I("OP_CONSTANT", 5, <<>>), I("OP_POP", 0, <<>>),
         I("OP_CONSTANT", 6, <<>>), I("OP_POP", 0, <<>>),
         I("OP_CONSTANT", 7, <<>>), I("OP_POP", 0, <<>>),
         I("OP_CONSTANT", 8, <<>>), I("OP_POP", 0, <<>>),
         I("OP_NIL", 0, <<>>), I("OP_RETURN", 0, <<>>)
       >>,
       \* chunk 49
       <<
         I("OP_CONSTANT", 0, <<>>), I("OP_POP", 0, <<>>),
         I("OP_NIL", 0, <<>>), I("OP_DEFINE_GLOBAL", 1, <<>>),
         I("OP_CLOSURE", 3, <<>>), I("OP_DEFINE_GLOBAL", 2, <<>>),
         I("OP_GET_GLOBAL", 2, <<>>), I("OP_CALL", 0, <<>>),
         I("OP_POP", 0, <<>>), I("OP_NIL", 0, <<>>), I("OP_RETURN", 0, <<>>)
       >>,
       \* chunk 50
       <<
         I("OP_GET_GLOBAL", 1, <<>>), I("OP_POP", 0, <<>>),
         I("OP_NIL", 0, <<>>), I("OP_RETURN", 0, <<>>)
       >>,
       \* chunk 51
       <<
         I("OP_CONSTANT", 0, <<>>), I("OP_POP", 0, <<>>),
         I("OP_CLASS", 1, <<>>), I("OP_DEFINE_GLOBAL", 1, <<>>),
         I("OP_GET_GLOBAL", 1, <<>>), I("OP_CLOSURE", 3, <<>>),
         I("OP_METHOD", 2, <<>>), I("OP_POP", 0, <<>>),
         I("OP_CLASS", 4, <<>>), I("OP_DEFINE_GLOBAL", 4, <<>>),
         I("OP_GET_GLOBAL", 1, <<>>), I("OP_GET_GLOBAL", 4, <<>>),
         I("OP_INHERIT", 0, <<>>), I("OP_GET_GLOBAL", 4, <<>>),
         I("OP_CLOSURE", 6, << <<1, 1>> >>), I("OP_METHOD", 5, <<>>),
         I("OP_POP", 0, <<>>), I("OP_CLOSE_UPVALUE", 0, <<>>),
         I("OP_NIL", 0, <<>>), I("OP_RETURN", 0, <<>>)
       >>,
       \* chunk 52
       <<
         I("OP_NIL", 0, <<>>), I("OP_RETURN", 0, <<>>)
       >>,
       \* chunk 53
       <<
         I("OP_GET_LOCAL", 0, <<>>), I("OP_GET_UPVALUE", 0, <<>>),
         I("OP_GET_SUPER", 2, <<>>), I("OP_POP", 0, <<>>),
         I("OP_GET_LOCAL", 0, <<>>), I("OP_GET_UPVALUE", 0, <<>>),
         I("OP_SUPER_INVOKE", 2, << 0 >>), I("OP_POP", 0, <<>>),
         I("OP_NIL", 0, <<>>), I("OP_RETURN", 0, <<>>)
       >>,
       \* chunk 54
       <<
         I("OP_CONSTANT", 0, <<>>), I("OP_POP", 0, <<>>),
         I("OP_NIL", 0, <<>>), I("OP_DEFINE_GLOBAL", 1, <<>>),
         I("OP_NIL", 0, <<>>), I("OP_DEFINE_GLOBAL", 2, <<>>),
         I("OP_CONSTANT", 3, <<>>), I("OP_CLOSURE", 4, << <<1, 1>> >>),
         I("OP_CLOSURE", 5, << <<1, 1>> >>), I("OP_GET_LOCAL", 2, <<>>),
         I("OP_SET_GLOBAL", 1, <<>>), I("OP_POP", 0, <<>>),
         I("OP_GET_LOCAL", 3, <<>>), I("OP_SET_GLOBAL", 2, <<>>),
         I("OP_POP", 0, <<>>), I("OP_CONSTANT", 6, <<>>),
         I("OP_SET_LOCAL", 1, <<>>), I("OP_POP", 0, <<>>),
         I("OP_POP", 0, <<>>), I("OP_POP", 0, <<>>),
         I("OP_CLOSE_UPVALUE", 0, <<>>), I("OP_GET_GLOBAL", 2, <<>>),
         I("OP_CALL", 0, <<>>), I("OP_POP", 0, <<>>),
         I("OP_GET_GLOBAL", 1, <<>>), I("OP_CALL", 0, <<>>),
         I("OP_POP", 0, <<>>), I("OP_NIL", 0, <<>>), I("OP_RETURN", 0, <<>>)
       >>,
       \* chunk 55
       <<
         I("OP_GET_UPVALUE", 0, <<>>), I("OP_RETURN", 0, <<>>),
         I("OP_NIL", 0, <<>>), I("OP_RETURN", 0, <<>>)
       >>,
       \* chunk 56
       <<
         I("OP_CONSTANT", 0, <<>>), I("OP_SET_UPVALUE", 0, <<>>),
         I("OP_POP", 0, <<>>), I("OP_NIL", 0, <<>>), I("OP_RETURN", 0, <<>>)
       >>,
       \* chunk 57
       <<
         I("OP_CONSTANT", 0, <<>>), I("OP_POP", 0, <<>>),
         I("OP_CONSTANT", 1, <<>>), I("OP_CLOSURE", 2, << <<1, 1>> >>),
         I("OP_NIL", 0, <<>>), I("OP_NIL", 0, <<>>), I("OP_NIL", 0, <<>>),
         I("OP_NIL", 0, <<>>), I("OP_NIL", 0, <<>>), I("OP_NIL", 0, <<>>),
         I("OP_POP", 0, <<>>), I("OP_POP", 0, <<>>), I("OP_POP", 0, <<>>),
         I("OP_POP", 0, <<>>), I("OP_POP", 0, <<>>), I("OP_POP", 0, <<>>),
         I("OP_POP", 0, <<>>), I("OP_CLOSE_UPVALUE", 0, <<>>),
         I("OP_NIL", 0, <<>>), I("OP_RETURN", 0, <<>>)
       >>,
       \* chunk 58
       <<
         I("OP_GET_UPVALUE", 0, <<>>), I("OP_RETURN", 0, <<>>),
         I("OP_NIL", 0, <<>>), I("OP_RETURN", 0, <<>>)
       >>,
       \* chunk 59
       <<
         I("OP_CONSTANT", 0, <<>>), I("OP_POP", 0, <<>>),
         I("OP_CLOSURE", 2, <<>>), I("OP_DEFINE_GLOBAL", 1, <<>>),
         I("OP_GET_GLOBAL", 1, <<>>), I("OP_CALL", 0, <<>>),
         I("OP_POP", 0, <<>>), I("OP_NIL", 0, <<>>), I("OP_RETURN", 0, <<>>)
       >>,
       \* chunk 60
       <<
         I("OP_NIL", 0, <<>>), I("OP_NIL", 0, <<>>), I("OP_NIL", 0, <<>>),
         I("OP_NIL", 0, <<>>), I("OP_NIL", 0, <<>>), I("OP_NIL", 0, <<>>),
         I("OP_NIL", 0, <<>>), I("OP_NIL", 0, <<>>), I("OP_RETURN", 0, <<>>)
       >>
    >>

\* 1; var s = "a" + "b"; var t = "ab";
StringsProgram ==
    [script |-> 1, hadError |-> FALSE,
     events |-> <<
       Ev("num", <<>>, 1), Ev("grow", <<>>, 0), Ev("ident", <<115>>, 0),
       Ev("str", <<97>>, 0), Ev("str", <<98>>, 0), Ev("grow", <<>>, 0),
       Ev("ident", <<116>>, 0), Ev("str", <<97, 98>>, 0)
     >>]

\* 1; "c"; var a = "ab"; var b;
LiteralProgram ==
    [script |-> 2, hadError |-> FALSE,
     events |-> <<
       Ev("num", <<>>, 1), Ev("grow", <<>>, 0), Ev("str", <<99>>, 0),
       Ev("ident", <<97>>, 0), Ev("str", <<97, 98>>, 0), Ev("grow", <<>>, 0),
       Ev("ident", <<98>>, 0)
     >>]

\* 1; s = 2;
AssignProgram ==
    [script |-> 3, hadError |-> FALSE,
     events |-> <<
       Ev("num", <<>>, 1), Ev("grow", <<>>, 0), Ev("ident", <<115>>, 0),
       Ev("num", <<>>, 2), Ev("grow", <<>>, 0)
     >>]

\* 1; s;
ReadProgram ==
    [script |-> 4, hadError |-> FALSE,
     events |-> <<
       Ev("num", <<>>, 1), Ev("grow", <<>>, 0), Ev("ident", <<115>>, 0)
     >>]

\* 1; var G; fun f() { var x = 1; "G"; fun g() { return x; } G = g; nil(); } f();
EscapeErrorProgram ==
    [script |-> 5, hadError |-> FALSE,
     events |-> <<
       Ev("num", <<>>, 1), Ev("grow", <<>>, 0), Ev("ident", <<71>>, 0),
       Ev("ident", <<102>>, 0), EvFun(<<102>>, 6, 0, 0), Ev("num", <<>>, 1),
       Ev("grow", <<>>, 0), Ev("str", <<71>>, 0), EvFun(<<103>>, 7, 0, 1),
       Ev("grow", <<>>, 0), Ev("end", <<>>, 0), Ev("grow", <<>>, 0),
       Ev("ident", <<71>>, 0), Ev("grow", <<>>, 0), Ev("end", <<>>, 0),
       Ev("grow", <<>>, 0), Ev("ident", <<102>>, 0), Ev("grow", <<>>, 0)
     >>]

\* 1; var G; fun f() { var x = 1; "G"; fun g() { return x; } G = g; } f(); G();
EscapeProgram ==
    [script |-> 8, hadError |-> FALSE,
     events |-> <<
       Ev("num", <<>>, 1), Ev("grow", <<>>, 0), Ev("ident", <<71>>, 0),
       Ev("ident", <<102>>, 0), EvFun(<<102>>, 9, 0, 0), Ev("num", <<>>, 1),
       Ev("grow", <<>>, 0), Ev("str", <<71>>, 0), EvFun(<<103>>, 10, 0, 1),
       Ev("grow", <<>>, 0), Ev("end", <<>>, 0), Ev("grow", <<>>, 0),
       Ev("ident", <<71>>, 0), Ev("end", <<>>, 0), Ev("grow", <<>>, 0),
       Ev("ident", <<102>>, 0), Ev("ident", <<71>>, 0), Ev("grow", <<>>, 0)
     >>]

\* 1; G();
CallGProgram ==
    [script |-> 11, hadError |-> FALSE,
     events |-> <<
       Ev("num", <<>>, 1), Ev("grow", <<>>, 0), Ev("ident", <<71>>, 0),
       Ev("grow", <<>>, 0)
     >>]

\* 1; var G; { var x = 1; x = 3; fun g() { x = 2; return x; } G = g; }
BlockProgram ==
    [script |-> 12, hadError |-> FALSE,
     events |-> <<
       Ev("num", <<>>, 1), Ev("grow", <<>>, 0), Ev("ident", <<71>>, 0),
       Ev("num", <<>>, 1), Ev("num", <<>>, 3), Ev("grow", <<>>, 0),
       EvFun(<<103>>, 13, 0, 1), Ev("num", <<>>, 2), Ev("grow", <<>>, 0),
       Ev("grow", <<>>, 0), Ev("end", <<>>, 0), Ev("grow", <<>>, 0),
       Ev("ident", <<71>>, 0)
     >>]

\* 1; class A { m() {} } var a = A();
ClassProgram ==
    [script |-> 14, hadError |-> FALSE,
     events |-> <<
       Ev("num", <<>>, 1), Ev("grow", <<>>, 0), Ev("ident", <<65>>, 0),
       Ev("ident", <<65>>, 0), Ev("grow", <<>>, 0), Ev("ident", <<109>>, 0),
       EvFun(<<109>>, 15, 0, 0), Ev("grow", <<>>, 0), Ev("end", <<>>, 0),
       Ev("ident", <<97>>, 0), Ev("ident", <<65>>, 0), Ev("grow", <<>>, 0)
     >>]

\* 1; var a = ;
SyntaxErrorProgram ==
    [script |-> 16, hadError |-> TRUE,
     events |-> <<
       Ev("num", <<>>, 1), Ev("grow", <<>>, 0), Ev("ident", <<97>>, 0)
     >>]

\* 1; fun f() { 2; "f"; f(); } f();
RecursionProgram ==
    [script |-> 17, hadError |-> FALSE,
     events |-> <<
       Ev("num", <<>>, 1), Ev("grow", <<>>, 0), Ev("ident", <<102>>, 0),
       EvFun(<<102>>, 18, 0, 0), Ev("num", <<>>, 2), Ev("grow", <<>>, 0),
       Ev("str", <<102>>, 0), Ev("ident", <<102>>, 0), Ev("grow", <<>>, 0),
       Ev("end", <<>>, 0), Ev("ident", <<102>>, 0), Ev("grow", <<>>, 0)
     >>]

\* 1; fun h(a) {} h();
ArityErrorProgram ==
    [script |-> 19, hadError |-> FALSE,
     events |-> <<
       Ev("num", <<>>, 1), Ev("grow", <<>>, 0), Ev("ident", <<104>>, 0),
       EvFun(<<104>>, 20, 1, 0), Ev("grow", <<>>, 0), Ev("end", <<>>, 0),
       Ev("ident", <<104>>, 0), Ev("grow", <<>>, 0)
     >>]

\* 1; fun h(a) {} h(1);
ArityProgram ==
    [script |-> 21, hadError |-> FALSE,
     events |-> <<
       Ev("num", <<>>, 1), Ev("grow", <<>>, 0), Ev("ident", <<104>>, 0),
       EvFun(<<104>>, 22, 1, 0), Ev("grow", <<>>, 0), Ev("end", <<>>, 0),
       Ev("ident", <<104>>, 0), Ev("grow", <<>>, 0), Ev("num", <<>>, 1)
     >>]

\* 1; "a" + "b";
ConcatProgram ==
    [script |-> 23, hadError |-> FALSE,
     events |-> <<
       Ev("num", <<>>, 1), Ev("grow", <<>>, 0), Ev("str", <<97>>, 0),
       Ev("str", <<98>>, 0), Ev("grow", <<>>, 0)
     >>]

\* 1; class A { m() {} } class B < A {}
InheritProgram ==
    [script |-> 24, hadError |-> FALSE,
     events |-> <<
       Ev("num", <<>>, 1), Ev("grow", <<>>, 0), Ev("ident", <<65>>, 0),
       Ev("ident", <<65>>, 0), Ev("grow", <<>>, 0), Ev("ident", <<109>>, 0),
       EvFun(<<109>>, 25, 0, 0), Ev("grow", <<>>, 0), Ev("end", <<>>, 0),
       Ev("ident", <<66>>, 0), Ev("grow", <<>>, 0), Ev("ident", <<65>>, 0),
       Ev("ident", <<66>>, 0), Ev("ident", <<66>>, 0)
     >>]

\* 1; class A { init() {} } A();
InitProgram ==
    [script |-> 26, hadError |-> FALSE,
     events |-> <<
       Ev("num", <<>>, 1), Ev("grow", <<>>, 0), Ev("ident", <<65>>, 0),
       Ev("ident", <<65>>, 0), Ev("grow", <<>>, 0),
       Ev("ident", <<105, 110, 105, 116>>, 0),
       EvFun(<<105, 110, 105, 116>>, 27, 0, 0), Ev("grow", <<>>, 0),
       Ev("end", <<>>, 0), Ev("ident", <<65>>, 0), Ev("grow", <<>>, 0)
     >>]

\* 1; class A { clock() {} } A();
ClockProgram ==
    [script |-> 28, hadError |-> FALSE,
     events |-> <<
       Ev("num", <<>>, 1), Ev("grow", <<>>, 0), Ev("ident", <<65>>, 0),
       Ev("ident", <<65>>, 0), Ev("grow", <<>>, 0),
       Ev("ident", <<99, 108, 111, 99, 107>>, 0),
       EvFun(<<99, 108, 111, 99, 107>>, 29, 0, 0), Ev("grow", <<>>, 0),
       Ev("end", <<>>, 0), Ev("ident", <<65>>, 0), Ev("grow", <<>>, 0)
     >>]

\* 1; class A {} A(); A(1);
NoInitProgram ==
    [script |-> 30, hadError |-> FALSE,
     events |-> <<
       Ev("num", <<>>, 1), Ev("grow", <<>>, 0), Ev("ident", <<65>>, 0),
       Ev("ident", <<65>>, 0), Ev("grow", <<>>, 0), Ev("ident", <<65>>, 0),
       Ev("ident", <<65>>, 0), Ev("grow", <<>>, 0), Ev("num", <<>>, 1)
     >>]

\* 1; class A { m() {} } var a = A(); a.m; a.m();
InvokeProgram ==
    [script |-> 31, hadError |-> FALSE,
     events |-> <<
       Ev("num", <<>>, 1), Ev("grow", <<>>, 0), Ev("ident", <<65>>, 0),
       Ev("ident", <<65>>, 0), Ev("grow", <<>>, 0), Ev("ident", <<109>>, 0),
       EvFun(<<109>>, 32, 0, 0), Ev("grow", <<>>, 0), Ev("end", <<>>, 0),
       Ev("ident", <<97>>, 0), Ev("ident", <<65>>, 0), Ev("grow", <<>>, 0),
       Ev("ident", <<97>>, 0), Ev("ident", <<109>>, 0),
       Ev("ident", <<97>>, 0), Ev("ident", <<109>>, 0), Ev("grow", <<>>, 0)
     >>]

\* 1; fun f() {} class A { f() {} } var a = A(); a.f = f; a.f; a.f();
FieldProgram ==
    [script |-> 33, hadError |-> FALSE,
     events |-> <<
       Ev("num", <<>>, 1), Ev("grow", <<>>, 0), Ev("ident", <<102>>, 0),
       EvFun(<<102>>, 34, 0, 0), Ev("grow", <<>>, 0), Ev("end", <<>>, 0),
       Ev("ident", <<65>>, 0), Ev("grow", <<>>, 0), Ev("ident", <<65>>, 0),
       Ev("ident", <<102>>, 0), EvFun(<<102>>, 35, 0, 0),
       Ev("grow", <<>>, 0), Ev("end", <<>>, 0), Ev("grow", <<>>, 0),
       Ev("ident", <<97>>, 0), Ev("ident", <<65>>, 0),
       Ev("ident", <<97>>, 0), Ev("ident", <<102>>, 0),
       Ev("ident", <<102>>, 0), Ev("ident", <<97>>, 0), Ev("grow", <<>>, 0),
       Ev("ident", <<102>>, 0), Ev("ident", <<97>>, 0),
       Ev("ident", <<102>>, 0)
     >>]

\* 1; 1 / 0;
DivideProgram ==
    [script |-> 36, hadError |-> FALSE,
     events |-> <<
       Ev("num", <<>>, 1), Ev("grow", <<>>, 0), Ev("num", <<>>, 1),
       Ev("num", <<>>, 0), Ev("grow", <<>>, 0)
     >>]

\* 1; 1 % 0;
ModulusProgram ==
    [script |-> 37, hadError |-> FALSE,
     events |-> <<
       Ev("num", <<>>, 1), Ev("grow", <<>>, 0), Ev("num", <<>>, 1),
       Ev("num", <<>>, 0), Ev("grow", <<>>, 0)
     >>]

\* 1; 6 / 3;
QuotientProgram ==
    [script |-> 38, hadError |-> FALSE,
     events |-> <<
       Ev("num", <<>>, 1), Ev("grow", <<>>, 0), Ev("num", <<>>, 6),
       Ev("num", <<>>, 3), Ev("grow", <<>>, 0)
     >>]

\* 1; nil / 1;
OperandProgram ==
    [script |-> 39, hadError |-> FALSE,
     events |-> <<
       Ev("num", <<>>, 1), Ev("grow", <<>>, 0), Ev("num", <<>>, 1),
       Ev("grow", <<>>, 0)
     >>]

\* 1; class A {} var a = A(); a.x = 1; a.y = 2; deleteField(a, "x"); deleteField(a, "x"); a.y; a.x;
DeleteProgram ==
    [script |-> 40, hadError |-> FALSE,
     events |-> <<
       Ev("num", <<>>, 1), Ev("grow", <<>>, 0), Ev("ident", <<65>>, 0),
       Ev("ident", <<65>>, 0), Ev("grow", <<>>, 0), Ev("ident", <<97>>, 0),
       Ev("ident", <<65>>, 0), Ev("ident", <<97>>, 0), Ev("grow", <<>>, 0),
       Ev("ident", <<120>>, 0), Ev("num", <<>>, 1), Ev("ident", <<97>>, 0),
       Ev("ident", <<121>>, 0), Ev("num", <<>>, 2),
       Ev("ident", <<100, 101, 108, 101, 116, 101, 70, 105, 101, 108, 100>>, 0),
       Ev("ident", <<97>>, 0), Ev("grow", <<>>, 0), Ev("str", <<120>>, 0),
       Ev("ident", <<100, 101, 108, 101, 116, 101, 70, 105, 101, 108, 100>>, 0),
       Ev("ident", <<97>>, 0), Ev("str", <<120>>, 0), Ev("ident", <<97>>, 0),
       Ev("ident", <<121>>, 0), Ev("ident", <<97>>, 0),
       Ev("ident", <<120>>, 0)
     >>]

\* 1; class A {} var a = A(); a.x = 1; deleteField(a); deleteField(1, "x"); deleteField(a, 1); deleteField(a, "x", 1); a.x;
MisuseProgram ==
    [script |-> 41, hadError |-> FALSE,
     events |-> <<
       Ev("num", <<>>, 1), Ev("grow", <<>>, 0), Ev("ident", <<65>>, 0),
       Ev("ident", <<65>>, 0), Ev("grow", <<>>, 0), Ev("ident", <<97>>, 0),
       Ev("ident", <<65>>, 0), Ev("ident", <<97>>, 0), Ev("grow", <<>>, 0),
       Ev("ident", <<120>>, 0), Ev("num", <<>>, 1),
       Ev("ident", <<100, 101, 108, 101, 116, 101, 70, 105, 101, 108, 100>>, 0),
       Ev("ident", <<97>>, 0),
       Ev("ident", <<100, 101, 108, 101, 116, 101, 70, 105, 101, 108, 100>>, 0),
       Ev("num", <<>>, 1), Ev("grow", <<>>, 0), Ev("str", <<120>>, 0),
       Ev("ident", <<100, 101, 108, 101, 116, 101, 70, 105, 101, 108, 100>>, 0),
       Ev("ident", <<97>>, 0), Ev("num", <<>>, 1),
       Ev("ident", <<100, 101, 108, 101, 116, 101, 70, 105, 101, 108, 100>>, 0),
       Ev("ident", <<97>>, 0), Ev("str", <<120>>, 0), Ev("num", <<>>, 1),
       Ev("ident", <<97>>, 0), Ev("ident", <<120>>, 0), Ev("grow", <<>>, 0)
     >>]

\* 1; class A {} var a = A(); a.x = 1; var b = A(); b.x = 2; deleteField(a, "x"); b.x;
TwoInstancesProgram ==
    [script |-> 42, hadError |-> FALSE,
     events |-> <<
       Ev("num", <<>>, 1), Ev("grow", <<>>, 0), Ev("ident", <<65>>, 0),
       Ev("ident", <<65>>, 0), Ev("grow", <<>>, 0), Ev("ident", <<97>>, 0),
       Ev("ident", <<65>>, 0), Ev("ident", <<97>>, 0), Ev("grow", <<>>, 0),
       Ev("ident", <<120>>, 0), Ev("num", <<>>, 1), Ev("ident", <<98>>, 0),
       Ev("ident", <<65>>, 0), Ev("ident", <<98>>, 0),
       Ev("ident", <<120>>, 0), Ev("num", <<>>, 2), Ev("grow", <<>>, 0),
       Ev("ident", <<100, 101, 108, 101, 116, 101, 70, 105, 101, 108, 100>>, 0),
       Ev("ident", <<97>>, 0), Ev("str", <<120>>, 0), Ev("ident", <<98>>, 0),
       Ev("ident", <<120>>, 0)
     >>]

\* 1; class A {} var a = A(); a.x = 1; deleteField(a, "z"); a.x;
AbsentProgram ==
    [script |-> 43, hadError |-> FALSE,
     events |-> <<
       Ev("num", <<>>, 1), Ev("grow", <<>>, 0), Ev("ident", <<65>>, 0),
       Ev("ident", <<65>>, 0), Ev("grow", <<>>, 0), Ev("ident", <<97>>, 0),
       Ev("ident", <<65>>, 0), Ev("ident", <<97>>, 0), Ev("grow", <<>>, 0),
       Ev("ident", <<120>>, 0), Ev("num", <<>>, 1),
       Ev("ident", <<100, 101, 108, 101, 116, 101, 70, 105, 101, 108, 100>>, 0),
       Ev("ident", <<97>>, 0), Ev("str", <<122>>, 0), Ev("ident", <<97>>, 0),
       Ev("grow", <<>>, 0), Ev("ident", <<120>>, 0)
     >>]

\* "a";
StringFirstProgram ==
    [script |-> 44, hadError |-> FALSE,
     events |-> <<
       Ev("str", <<97>>, 0), Ev("grow", <<>>, 0)
     >>]

\* var a;
GlobalFirstProgram ==
    [script |-> 45, hadError |-> FALSE,
     events |-> <<
       Ev("ident", <<97>>, 0), Ev("grow", <<>>, 0)
     >>]

\* 1; 1; 1; 1; 1; 1; 1; fun f() {}
NinthFunctionProgram ==
    [script |-> 46, hadError |-> FALSE,
     events |-> <<
       Ev("num", <<>>, 1), Ev("grow", <<>>, 0), Ev("num", <<>>, 1),
       Ev("num", <<>>, 1), Ev("grow", <<>>, 0), Ev("num", <<>>, 1),
       Ev("num", <<>>, 1), Ev("num", <<>>, 1), Ev("grow", <<>>, 0),
       Ev("num", <<>>, 1), Ev("ident", <<102>>, 0), EvFun(<<102>>, 47, 0, 0),
       Ev("grow", <<>>, 0), Ev("end", <<>>, 0)
     >>]

\* 1; 1; 1; 1; 1; 1; 1; 1; "a";
NinthStringProgram ==
    [script |-> 48, hadError |-> FALSE,
     events |-> <<
       Ev("num", <<>>, 1), Ev("grow", <<>>, 0), Ev("num", <<>>, 1),
       Ev("num", <<>>, 1), Ev("grow", <<>>, 0), Ev("num", <<>>, 1),
       Ev("num", <<>>, 1), Ev("num", <<>>, 1), Ev("grow", <<>>, 0),
       Ev("num", <<>>, 1), Ev("num", <<>>, 1), Ev("str", <<97>>, 0)
     >>]

\* 1; var x; fun f() { x; } f();
GlobalInFunctionProgram ==
    [script |-> 49, hadError |-> FALSE,
     events |-> <<
       Ev("num", <<>>, 1), Ev("grow", <<>>, 0), Ev("ident", <<120>>, 0),
       Ev("ident", <<102>>, 0), EvFun(<<102>>, 50, 0, 0),
       Ev("ident", <<120>>, 0), Ev("grow", <<>>, 0), Ev("end", <<>>, 0),
       Ev("grow", <<>>, 0), Ev("ident", <<102>>, 0), Ev("grow", <<>>, 0)
     >>]

\* 1; class A { m() {} } class B < A { t() { super.m; super.m(); } }
SuperProgram ==
    [script |-> 51, hadError |-> FALSE,
     events |-> <<
       Ev("num", <<>>, 1), Ev("grow", <<>>, 0), Ev("ident", <<65>>, 0),
       Ev("ident", <<65>>, 0), Ev("grow", <<>>, 0), Ev("ident", <<109>>, 0),
       EvFun(<<109>>, 52, 0, 0), Ev("grow", <<>>, 0), Ev("end", <<>>, 0),
       Ev("ident", <<66>>, 0), Ev("grow", <<>>, 0), Ev("ident", <<65>>, 0),
       Ev("ident", <<66>>, 0), Ev("ident", <<66>>, 0),
       Ev("ident", <<116>>, 0), EvFun(<<116>>, 53, 0, 1),
       Ev("ident", <<109>>, 0), Ev("grow", <<>>, 0), Ev("ident", <<109>>, 0),
       Ev("grow", <<>>, 0), Ev("grow", <<>>, 0), Ev("end", <<>>, 0),
       Ev("grow", <<>>, 0)
     >>]

\* 1; var G; var H; { var x = 1; fun g() { return x; } fun h() { x = 2; } G = g; H = h; x = 3; } H(); G();
ShareProgram ==
    [script |-> 54, hadError |-> FALSE,
     events |-> <<
       Ev("num", <<>>, 1), Ev("grow", <<>>, 0), Ev("ident", <<71>>, 0),
       Ev("ident", <<72>>, 0), Ev("grow", <<>>, 0), Ev("num", <<>>, 1),
       EvFun(<<103>>, 55, 0, 1), Ev("grow", <<>>, 0), Ev("end", <<>>, 0),
       EvFun(<<104>>, 56, 0, 1), Ev("num", <<>>, 2), Ev("grow", <<>>, 0),
       Ev("end", <<>>, 0), Ev("grow", <<>>, 0), Ev("ident", <<71>>, 0),
       Ev("ident", <<72>>, 0), Ev("num", <<>>, 3), Ev("grow", <<>>, 0),
       Ev("ident", <<72>>, 0), Ev("ident", <<71>>, 0)
     >>]

\* 1; { var x = 1; fun g() { return x; } var a; var b; var c; var d; var e; var h; }
GrowProgram ==
    [script |-> 57, hadError |-> FALSE,
     events |-> <<
       Ev("num", <<>>, 1), Ev("grow", <<>>, 0), Ev("num", <<>>, 1),
       EvFun(<<103>>, 58, 0, 1), Ev("grow", <<>>, 0), Ev("end", <<>>, 0),
       Ev("grow", <<>>, 0), Ev("grow", <<>>, 0)
     >>]

\* 1; fun f() { var a; var b; var c; var d; var e; var g; var h; } f();
LocalsProgram ==
    [script |-> 59, hadError |-> FALSE,
     events |-> <<
       Ev("num", <<>>, 1), Ev("grow", <<>>, 0), Ev("ident", <<102>>, 0),
       EvFun(<<102>>, 60, 0, 0), Ev("grow", <<>>, 0), Ev("grow", <<>>, 0),
       Ev("end", <<>>, 0), Ev("ident", <<102>>, 0), Ev("grow", <<>>, 0)
     >>]

(***************************************************************************)
(* The bytes of the chunks of the menu.  OpCode is the enum of chunk.h in  *)
(* its order: the byte of an opcode is its position, from 0.               *)
(***************************************************************************)
OpCode ==
    <<"OP_CONSTANT", "OP_NIL", "OP_TRUE", "OP_FALSE", "OP_POP", "OP_GET_LOCAL",
      "OP_SET_LOCAL", "OP_GET_GLOBAL", "OP_DEFINE_GLOBAL", "OP_SET_GLOBAL",
      "OP_GET_UPVALUE", "OP_SET_UPVALUE", "OP_GET_PROPERTY", "OP_SET_PROPERTY",
      "OP_GET_SUPER", "OP_DUP", "OP_EQUAL", "OP_GREATER", "OP_LESS", "OP_ADD",
      "OP_SUBTRACT", "OP_MULTIPLY", "OP_DIVIDE", "OP_NOT", "OP_NEGATE",
      "OP_PRINT", "OP_JUMP", "OP_JUMP_IF_FALSE", "OP_LOOP", "OP_CALL",
      "OP_INVOKE", "OP_SUPER_INVOKE", "OP_CLOSURE", "OP_CLOSE_UPVALUE",
      "OP_MODULUS", "OP_CONSTANT_LONG", "OP_RETURN", "OP_CONDITIONAL",
      "OP_CLASS", "OP_INHERIT", "OP_METHOD">>

opByte(op) == CHOOSE b \in 0..(Len(OpCode) - 1) : OpCode[b + 1] = op

\* The opcodes without operand.
Simple ==
    {"OP_NIL", "OP_TRUE", "OP_FALSE", "OP_POP", "OP_ADD", "OP_DIVIDE",
     "OP_MODULUS", "OP_RETURN", "OP_CLOSE_UPVALUE", "OP_INHERIT", "OP_DUP",
     "OP_EQUAL"}

RECURSIVE operandPairs(_, _)
operandPairs(uv, i) ==
    IF i > Len(uv) THEN <<>> ELSE uv[i] \o operandPairs(uv, i + 1)

\* The bytes of an instruction.
encode(instr) ==
    IF instr.op \in Simple THEN <<opByte(instr.op)>>
    ELSE IF instr.op = "OP_CLOSURE"
    THEN <<opByte(instr.op), instr.a>> \o operandPairs(instr.uv, 1)
    ELSE <<opByte(instr.op), instr.a>> \o instr.uv

RECURSIVE bytesOf(_, _)
bytesOf(code, i) ==
    IF i > Len(code) THEN <<>> ELSE encode(code[i]) \o bytesOf(code, i + 1)

\* The offset of the byte that follows the instructions before ip (ip is the
\* position of an instruction in a chunk of the menu).
bytesBefore(k, ip) == Len(bytesOf(SubSeq(Chunks[k], 1, ip - 1), 1))

\* The repeated GROW_ARRAY of an array that receives one element at a time:
\* the capacity when the array holds count elements, and how often it grew.
RECURSIVE grownFor(_, _)
grownFor(capacity, count) ==
    IF capacity >= count THEN capacity
    ELSE grownFor(GROW_CAPACITY(capacity), count)

RECURSIVE growths(_, _)
growths(capacity, count) ==
    IF capacity >= count THEN 0
    ELSE 1 + growths(GROW_CAPACITY(capacity), count)

\* writeChunk of each byte of bytes, n times over, all on one line: the
\* first writeChunk makes the line entry if the line is new, the others
\* find the line of the last entry.
writeRepeated(chunk, bytes, n, line) ==
    IF n = 0 THEN chunk
    ELSE [writeChunk(chunk, bytes[1], line) EXCEPT
            !.code     = chunk.code \o
                         [i \in 1..(Len(bytes) * n) |->
                            bytes[((i - 1) % Len(bytes)) + 1]],
            !.count    = chunk.count + Len(bytes) * n,
            !.capacity = grownFor(chunk.capacity, chunk.count + Len(bytes) * n)]

\* Chunk k of the menu, as writeChunk leaves it: the sources of the menu
\* are one line each.
menuChunk(k) == writeRepeated(initChunk, bytesOf(Chunks[k], 1), 1, 1)

(***************************************************************************)
(* The VM (vm.h, vm.c) as a record m:                                      *)
(*   heap, objects            the heap and the allocation list             *)
(*   stack, stackCount        the slots of the value stack written so far  *)
(*                            (C slot i is stack[i + 1]) and vm.stackCount *)
(*   stackCapacity, stackBase the capacity of the stack block, and which   *)
(*                            block it is: a growth that moves the block   *)
(*                            gives it the next number                     *)
(*   moves                    whether realloc moves the block it grows     *)
(*   frames                   the CallFrames [closure, ip, slots]          *)
(*   openUpvalues             head of the open-upvalue list (NULL if none) *)
(*   globals, strings         the two tables                               *)
(*   initString               vm.initString                                *)
(*   current                  the compiler chain (compiler.c), innermost   *)
(*                            first: the functions under construction      *)
(*   result                   "NONE", "COMPILING" inside compile() of a    *)
(*                            source given by its statements, "RUNNING"    *)
(*                            inside run(), the                            *)
(*                            InterpretResult of the last interpret, or    *)
(*                            "UNDEFINED" (see ub)                         *)
(*   ub                       the operation under way has done something   *)
(*                            whose behaviour C leaves undefined: nothing  *)
(*                            is known of the state it leaves, and the     *)
(*                            result becomes "UNDEFINED"                   *)
(*   error                    the last runtime error message ("" if none)  *)
(*   trace                    the stack trace printed with it              *)
(*   unit                     the state of the last compile() of a source  *)
(*                            given by its statements; its chunk is that   *)
(*                            of the function whose chunk field is 0       *)
(*   fits                     the heap bound MaxObj was not exceeded       *)
(* A pointer into the stack is [base, index]: the block and the C index.   *)
(***************************************************************************)
FRAMES_MAX == 64

frameCount(m) == Len(m.frames)

slotPtr(m, index) == [base |-> m.stackBase, index |-> index]

\* upvalue->location == &upvalue->closed
ClosedLocation == [base |-> -1, index |-> 0]

\* A pointer that may be dereferenced: into the current block, at a slot
\* that has been written.
validPtr(m, ptr) ==
    ptr.base = m.stackBase /\ ptr.index >= 0 /\ ptr.index < Len(m.stack)

undefined(m) == [m EXCEPT !.ub = TRUE]

isObjType(hp, a, type) == a \in Addr /\ hp[a].type = type

IS_OBJ_TYPE(m, value, type) ==
    IS_OBJ(value) /\ isObjType(m.heap, AS_OBJ(value), type)

\* A value that may be read: not a reference to freed memory.
liveValue(m, value) ==
    IS_OBJ(value) => (AS_OBJ(value) \in Addr /\ m.heap[AS_OBJ(value)].type # "free")

FreeAddrs(hp) == {a \in Addr : hp[a].type = "free"}

\* The address the allocator returns: the lowest free one.
newAddr(hp) == CHOOSE a \in FreeAddrs(hp) : \A b \in FreeAddrs(hp) : a <= b

\* ALLOCATE_OBJ: reallocate (which collects), then link the object at the
\* head of vm.objects with isMarked = false.  [m, a]
linkObject(m, obj) ==
    IF FreeAddrs(m.heap) = {}
    THEN [m |-> [m EXCEPT !.fits = FALSE], a |-> NULL]
    ELSE LET a == newAddr(m.heap) IN
         [m |-> [m EXCEPT !.heap[a] = obj, !.objects = <<a>> \o @], a |-> a]

allocateObject(m, obj) == linkObject(reallocate(m), obj)

\* vm.stack[index] = value
storeSlot(stack, index, value) ==
    IF index < Len(stack) THEN [stack EXCEPT ![index + 1] = value]
    ELSE Append(stack, value)

\* push: grows the stack block (a growing reallocate) when it is full, then
\* stores the value.
push(m, value) ==
    LET m1 == IF m.stackCapacity < m.stackCount + 1
              THEN [reallocate(m) EXCEPT
                      !.stackCapacity = GROW_CAPACITY(m.stackCapacity),
                      !.stackBase = IF m.moves THEN @ + 1 ELSE @]
              ELSE m
    IN  [m1 EXCEPT !.stack = storeSlot(@, m.stackCount, value),
                   !.stackCount = @ + 1]

\* pop of an empty stack reads the element before the block.
pop(m) ==
    IF m.stackCount = 0 THEN undefined(m) ELSE [m EXCEPT !.stackCount = @ - 1]

peek(m, distance) == m.stack[m.stackCount - distance]

\* The reset that empties the value stack and leaves the frames.
resetValueStack(m) == [m EXCEPT !.stackCount = 0, !.openUpvalues = NULL]

resetStack(m) ==
    [m EXCEPT !.stackCount = 0, !.frames = <<>>, !.openUpvalues = NULL]

\* The chunk of a function: chunk k of the menu, or the chunk of the unit
\* compiled last.  frame->ip is the position of an instruction in a chunk
\* of the menu, and the position of a byte (its offset plus one) in the
\* chunk of the unit.
chunkOf(m, k) == IF k = 0 THEN m.unit.chunk ELSE menuChunk(k)

\* frame->ip - function->chunk.code
offsetOf(k, ip) == IF k = 0 THEN ip - 1 ELSE bytesBefore(k, ip)

\* What fprintf prints for "[line %d]" given function->chunk.lines[instruction]:
\* a LineStart where %d takes an int, and an entry beyond the lineCount
\* entries written unless instruction < lineCount.  The number printed is
\* not determined; start is the entry read, if there is one.
printedLine(lines, instruction) ==
    [determined |-> FALSE, value |-> 0,
     start |-> IF instruction >= 0 /\ instruction < Len(lines)
               THEN <<lines[instruction + 1]>> ELSE <<>>]

\* The line and the name runtimeError prints for a frame.
traceLine(m, f) ==
    LET function    == m.heap[m.heap[f.closure].function]
        instruction == offsetOf(function.chunk, f.ip) - 1
    IN  [line |-> printedLine(chunkOf(m, function.chunk).lines, instruction),
         name |-> function.name]

\* for (int i = vm.frameCount - 1; i >= 0; i--)
stackTrace(m) ==
    [i \in 1..frameCount(m) |-> traceLine(m, m.frames[frameCount(m) + 1 - i])]

\* runtimeError prints the message and the trace, then resets the stacks;
\* the caller returns INTERPRET_RUNTIME_ERROR.
runtimeError(m, message) ==
    [resetStack(m) EXCEPT !.error = message, !.trace = stackTrace(m),
                          !.result = "RUNTIME_ERROR"]

\* A table of the VM is designated by <<"globals", NULL>>, <<"strings", NULL>>,
\* <<"methods", class>> or <<"fields", instance>>.
getTable(m, loc) ==
    IF loc[1] = "globals" THEN m.globals
    ELSE IF loc[1] = "strings" THEN m.strings
    ELSE IF loc[1] = "methods" THEN m.heap[loc[2]].methods
    ELSE m.heap[loc[2]].fields

putTable(m, loc, t) ==
    IF loc[1] = "globals" THEN [m EXCEPT !.globals = t]
    ELSE IF loc[1] = "strings" THEN [m EXCEPT !.strings = t]
    ELSE IF loc[1] = "methods" THEN [m EXCEPT !.heap[loc[2]].methods = t]
    ELSE [m EXCEPT !.heap[loc[2]].fields = t]

\* Every key of the table is a string that has not been freed.
keysLive(hp, t) == \A k \in tableKeys(t) : hp[k].type = "string"

\* tableSet on a table of the VM: adjustCapacity's ALLOCATE is a growing
\* reallocate, so the collector runs before the entries are re-inserted,
\* and the re-insertion reads the hash of every key.  [m, isNewKey]
vmTableStore(m, loc, key, value, grows) ==
    IF m.heap[key].type # "string"
       \/ (grows /\ ~keysLive(m.heap, getTable(m, loc)))
    THEN [m |-> undefined(m), isNewKey |-> FALSE]
    ELSE LET r == tableSet(hashOf(m.heap), getTable(m, loc), key, value) IN
         [m |-> putTable(m, loc, r.table), isNewKey |-> r.isNewKey]

vmTableSet(m, loc, key, value) ==
    IF tableMustGrow(getTable(m, loc))
    THEN vmTableStore(reallocate(m), loc, key, value, TRUE)
    ELSE vmTableStore(m, loc, key, value, FALSE)

\* [found, value]
vmTableGet(m, loc, key) == tableGet(hashOf(m.heap), getTable(m, loc), key)

\* [m, found]
vmTableDelete(m, loc, key) ==
    LET r == tableDelete(hashOf(m.heap), getTable(m, loc), key)
    IN  [m |-> putTable(m, loc, r.table), found |-> r.found]

(***************************************************************************)
(* Object construction (object.h).  Each constructor allocates through     *)
(* allocateObject and returns [m, a].                                      *)
(***************************************************************************)
newFunction(m) ==
    allocateObject(m, [type |-> "function", isMarked |-> FALSE, arity |-> 0,
                       upvalueCount |-> 0, name |-> NULL, constants |-> <<>>,
                       constCapacity |-> 0, chunk |-> 0])

newNative(m, function) ==
    allocateObject(m, [type |-> "native", isMarked |-> FALSE,
                       function |-> function])

newClosure(m, function) ==
    allocateObject(m, [type |-> "closure", isMarked |-> FALSE,
                       function |-> function,
                       upvalues |-> [i \in 1..m.heap[function].upvalueCount |-> NULL],
                       upvalueCount |-> m.heap[function].upvalueCount])

newUpvalue(m, slot) ==
    allocateObject(m, [type |-> "upvalue", isMarked |-> FALSE,
                       location |-> slot, closed |-> NIL_VAL, next |-> NULL])

newClass(m, name) ==
    allocateObject(m, [type |-> "class", isMarked |-> FALSE, name |-> name,
                       initializer |-> NIL_VAL, methods |-> initTable])

newInstance(m, klass) ==
    allocateObject(m, [type |-> "instance", isMarked |-> FALSE,
                       klass |-> klass, fields |-> initTable])

newBoundMethod(m, receiver, method) ==
    allocateObject(m, [type |-> "bound", isMarked |-> FALSE,
                       receiver |-> receiver, method |-> method])

\* allocateString: the new string is pushed while it is entered in
\* vm.strings, then popped.
internString(r) ==
    IF r.a = NULL THEN r
    ELSE [m |-> pop(vmTableSet(push(r.m, OBJ_VAL(r.a)), <<"strings", NULL>>,
                               r.a, NIL_VAL).m),
          a |-> r.a]

allocateString(m, chars, hash) ==
    internString(allocateObject(m, [type |-> "string", isMarked |-> FALSE,
                                    chars |-> chars, hash |-> hash]))

\* copyString: the interned string of this content if there is one, else a
\* new string.
copyString(m, chars) ==
    LET hash     == hashString(chars)
        interned == tableFindString(m.heap, m.strings, chars, hash)
    IN  IF interned # NULL THEN [m |-> m, a |-> interned]
        ELSE allocateString(m, chars, hash)

\* takeString: as copyString, for a buffer the caller has built (it is freed
\* when the content is interned already).
takeString(m, chars) ==
    LET hash     == hashString(chars)
        interned == tableFindString(m.heap, m.strings, chars, hash)
    IN  IF interned # NULL THEN [m |-> m, a |-> interned]
        ELSE allocateString(m, chars, hash)

(***************************************************************************)
(* The compiler (compiler.c), as far as the heap sees it.  What compile()  *)
(* does for a given source text is a sequence of events, in the order the  *)
(* single pass performs them:                                              *)
(*   "num"    makeConstant of a number literal                             *)
(*   "str"    string(): copyString of a literal, then makeConstant         *)
(*   "ident"  identifierConstant of a name                                 *)
(*   "fun"    initCompiler of a function or method (chunk k of the         *)
(*            program, with its arity and upvalue count)                   *)
(*   "end"    endCompiler of a function, then makeConstant of it in the    *)
(*            enclosing function                                           *)
(*   "grow"   writeChunk growing the code or line array of the chunk       *)
(* and the code it emits is a sequence of instructions per chunk.  cs is   *)
(* [m, sc]: the VM and the stringConstants table (count, capacity and the  *)
(* [key, index] pairs it holds).                                           *)
(***************************************************************************)
\* writeValueArray, through addConstant: the array grows (a growing
\* reallocate) before the value is stored.
addConstant(m, f, value) ==
    LET fo == m.heap[f]
        m1 == IF fo.constCapacity < Len(fo.constants) + 1
              THEN [reallocate(m) EXCEPT
                      !.heap[f].constCapacity = GROW_CAPACITY(fo.constCapacity)]
              ELSE m
    IN  [m1 EXCEPT !.heap[f].constants = Append(@, value)]

makeConstant(m, value) == addConstant(m, Head(m.current), value)

scFind(sc, key) == {i \in 1..Len(sc.entries) : sc.entries[i].key = key}

\* identifierConstant once copyString has returned r.
identifierIndex(cs, r) ==
    IF r.a = NULL \/ scFind(cs.sc, r.a) # {}
    THEN [cs EXCEPT !.m = r.m]
    ELSE LET index == Len(r.m.heap[Head(r.m.current)].constants)
             grows == tableMustGrow(cs.sc)
         IN  [m  |-> IF grows THEN reallocate(makeConstant(r.m, OBJ_VAL(r.a)))
                     ELSE makeConstant(r.m, OBJ_VAL(r.a)),
              sc |-> [count    |-> cs.sc.count + 1,
                      capacity |-> IF grows THEN GROW_CAPACITY(cs.sc.capacity)
                                   ELSE cs.sc.capacity,
                      entries  |-> Append(cs.sc.entries,
                                          [key |-> r.a, index |-> index])]]

identifierConstant(cs, chars) == identifierIndex(cs, copyString(cs.m, chars))

\* newFunction, then current = compiler, then the name of the function.
setName(n, function) == [n.m EXCEPT !.heap[function].name = n.a]

beginFunction(r, ev) ==
    IF r.a = NULL THEN r.m
    ELSE LET m1 == [r.m EXCEPT !.current = <<r.a>> \o @,
                               !.heap[r.a].arity = ev.arity,
                               !.heap[r.a].upvalueCount = ev.uvc,
                               !.heap[r.a].chunk = ev.k]
         IN  IF ev.s = <<>> THEN m1
             ELSE setName(copyString(m1, ev.s), r.a)

initCompiler(m, ev) == beginFunction(newFunction(m), ev)

\* current = current->enclosing
endCompiler(m) == [m EXCEPT !.current = Tail(@)]

\* emitConstant of the string copyString has returned
stringConstant(r) == IF r.a = NULL THEN r.m ELSE makeConstant(r.m, OBJ_VAL(r.a))

compileEvent(cs, ev) ==
    CASE ev.e = "num"   -> [cs EXCEPT !.m = makeConstant(cs.m, NUMBER_VAL(ev.n))]
      [] ev.e = "str"   -> [cs EXCEPT !.m = stringConstant(copyString(cs.m, ev.s))]
      [] ev.e = "ident" -> identifierConstant(cs, ev.s)
      [] ev.e = "fun"   -> [cs EXCEPT !.m = initCompiler(cs.m, ev)]
      [] ev.e = "end"   -> LET function == Head(cs.m.current) IN
                           [cs EXCEPT !.m = makeConstant(endCompiler(cs.m),
                                                         OBJ_VAL(function))]
      [] ev.e = "grow"  -> [cs EXCEPT !.m = reallocate(cs.m)]

RECURSIVE compileFrom(_, _, _)
compileFrom(cs, events, i) ==
    IF i > Len(events) \/ ~cs.m.fits THEN cs
    ELSE compileFrom(compileEvent(cs, events[i]), events, i + 1)

ScriptEvent(k) ==
    [e |-> "fun", s |-> <<>>, n |-> 0, k |-> k, arity |-> 0, uvc |-> 0]

\* The compile that returns the function whether or not the parser had an
\* error.
compiledDespiteError(cs, prog) ==
    IF ~cs.m.fits THEN [m |-> cs.m, function |-> NULL]
    ELSE [m |-> endCompiler(cs.m), function |-> Head(cs.m.current)]

\* compile: [m, function], function = NULL when the parser had an error.
compiled(cs, prog) ==
    IF ~cs.m.fits THEN [m |-> cs.m, function |-> NULL]
    ELSE [m |-> endCompiler(cs.m),
          function |-> IF prog.hadError THEN NULL ELSE Head(cs.m.current)]

compile(m, prog) ==
    compiled(compileFrom([m  |-> initCompiler(m, ScriptEvent(prog.script)),
                          sc |-> [count |-> 0, capacity |-> 0, entries |-> <<>>]],
                         prog.events, 1),
             prog)

(***************************************************************************)
(* The compiler at the level of the bytes it emits (compiler.c).  A source *)
(* text is given by its statements (one line of text, no globals: every    *)
(* variable it names is a local of a block):                               *)
(*   [s |-> "nil", n]          n times the statement  nil;                 *)
(*   [s |-> "number", n]       n times the statement  1;                   *)
(*   [s |-> "expression", e]   e;                                          *)
(*   [s |-> "var", name, e]    var name = e;                               *)
(*   [s |-> "block", body]     { body }                                    *)
(*   [s |-> "if", e, then, else]      else is [s |-> "none"] if absent     *)
(*   [s |-> "while", e, body]                                              *)
(*   [s |-> "for", init, e, incr, body]   each clause may be "none"        *)
(*   [s |-> "continue"]                                                    *)
(*   [s |-> "switch", e, arms]     switch (e) { arms }                     *)
(*   [s |-> "fun", name, chars, captures, k]   fun name() { ... }  whose   *)
(*                             body is chunk k of the menu and names the   *)
(*                             locals `captures` of the enclosing function *)
(* with the expressions [x |-> "nil" | "true" | "false"], [x |-> "number", *)
(* n], [x |-> "variable", name], [x |-> "assign", name, e] and              *)
(* [x |-> "conditional", c, a, b] for the text  c ? a : b.                 *)
(* c is the state of one compile():                                        *)
(*   chunk, constants       of the function being compiled                 *)
(*   hadError, panicMode    of the parser; error is the first message      *)
(*   locals, scopeDepth     of the Compiler (localCount is Len(locals))    *)
(*   innermostLoopStart, innermostLoopScopeDepth     the two globals       *)
(*   line                   parser.previous.line                           *)
(*   current                the type of parser.current where an expression *)
(*                          has ended before a token of its text, else ""  *)
(*   grows                  how many times an array of the chunk has grown *)
(* and, beside what the code keeps, what the source says:                  *)
(*   loops                  the loops around the statement being compiled, *)
(*                          the innermost last: kind, start, the offset    *)
(*                          where its next iteration begins (next), and    *)
(*                          the locals declared when it starts             *)
(*   jumps                  for each jump emitted, the offset of its       *)
(*                          operand (at) and the offset it is to reach     *)
(*   loads                  for each constant of a literal, its index and  *)
(*                          the offset of the instruction that loads it    *)
(*   continues              for each continue, the operand of its OP_LOOP, *)
(*                          the loops around it and whether it was         *)
(*                          compiled without a new error                   *)
(*   conditionals           for each text  c ? a : b,  the offsets where   *)
(*                          its code starts and ends, the locals declared  *)
(*                          there, and whether all of it was parsed as one *)
(*                          expression                                     *)
(*   switches               for each switch statement, the offsets where   *)
(*                          its code starts and ends, the locals declared  *)
(*                          there, and whether it compiled without error   *)
(***************************************************************************)
UINT8_MAX == 255

UINT8_COUNT == 256

UINT16_MAX == 65535

Byte(op) == opByte(op)

\* c once the chunk has become w.
emitted(c, w) ==
    [c EXCEPT !.chunk = w,
              !.grows = @ + growths(c.chunk.capacity, w.count)
                          + growths(c.chunk.lineCapacity, w.lineCount)]

emitByte(c, byte) == emitted(c, writeChunk(c.chunk, byte, c.line))

emitBytes(c, byte1, byte2) == emitByte(emitByte(c, byte1), byte2)

RECURSIVE emitTimes(_, _, _)
emitTimes(c, byte, n) ==
    IF n = 0 THEN c ELSE emitTimes(emitByte(c, byte), byte, n - 1)

\* errorAt, of error(message) and of errorAtCurrent(message): the token
\* only goes into the text printed.
error(c, message) ==
    IF c.panicMode THEN c
    ELSE [c EXCEPT !.panicMode = TRUE, !.hadError = TRUE,
                   !.error = IF c.hadError THEN @ ELSE message]

\* synchronize, where the previous token is ';' or the current one is the
\* end of the text: an error of a source of the menu is reported inside a
\* statement that ends with ';', or in the last statement of the text.  The
\* tokens up to there are skipped.
synchronize(c) == [c EXCEPT !.panicMode = FALSE, !.current = ""]

\* The operand bytes of a 16-bit offset: (offset >> 8) & 0xff, offset & 0xff.
highByte(offset) == (offset \div 256) % 256

lowByte(offset) == offset % 256

\* emitLoop once OP_LOOP is written.
loopOperand(c, loopStart, offset) ==
    emitBytes([(IF offset > UINT16_MAX THEN error(c, "Loop body too large.")
                ELSE c)
                 EXCEPT !.jumps = Append(@, [at     |-> c.chunk.count,
                                             op     |-> "OP_LOOP",
                                             target |-> loopStart])],
              highByte(offset), lowByte(offset))

loopFrom(c, loopStart) == loopOperand(c, loopStart, c.chunk.count - loopStart + 2)

emitLoop(c, loopStart) == loopFrom(emitByte(c, Byte("OP_LOOP")), loopStart)

\* emitJump returns currentChunk()->count - 2, the offset of the operand.
emitJump(c, instruction) == emitBytes(emitByte(c, Byte(instruction)), 255, 255)

emitReturn(c) == emitByte(emitByte(c, Byte("OP_NIL")), Byte("OP_RETURN"))

\* makeConstant once addConstant has returned the index constant.
constantOperand(c, constant) ==
    IF constant > UINT8_MAX
    THEN [c |-> error(c, "Too many constants in one chunk."), byte |-> 0,
          constant |-> constant]
    ELSE [c |-> c, byte |-> constant, constant |-> constant]

\* addConstant: writeValueArray, then the index of the value.
constantAdded(c, value) ==
    [c EXCEPT !.constants = Append(@, value),
              !.grows = @ + growths(grownFor(0, Len(c.constants)),
                                    Len(c.constants) + 1)]

loadConstant(r) ==
    [emitBytes(r.c, Byte("OP_CONSTANT"), r.byte) EXCEPT
       !.loads = Append(@, [at |-> r.c.chunk.count, constant |-> r.constant])]

emitConstant(c, value) ==
    loadConstant(constantOperand(constantAdded(c, value), Len(c.constants)))

\* patchJump measuring the distance from the operand, not from its end.
patchJumpFromOperand(c, offset) ==
    [(IF c.chunk.count - offset > UINT16_MAX
      THEN error(c, "Too much code to jump over.") ELSE c)
       EXCEPT !.chunk.code[offset + 1] = highByte(c.chunk.count - offset),
              !.chunk.code[offset + 2] = lowByte(c.chunk.count - offset),
              !.jumps = Append(@, [at     |-> offset,
                                   op     |-> OpCode[c.chunk.code[offset] + 1],
                                   target |-> c.chunk.count])]

patchJump(c, offset) ==
    [(IF c.chunk.count - offset - 2 > UINT16_MAX
      THEN error(c, "Too much code to jump over.") ELSE c)
       EXCEPT !.chunk.code[offset + 1] = highByte(c.chunk.count - offset - 2),
              !.chunk.code[offset + 2] = lowByte(c.chunk.count - offset - 2),
              !.jumps = Append(@, [at     |-> offset,
                                   op     |-> OpCode[c.chunk.code[offset] + 1],
                                   target |-> c.chunk.count])]

beginScope(c) == [c EXCEPT !.scopeDepth = @ + 1]

\* The loop of endScope, once scopeDepth is decremented.
RECURSIVE popScope(_)
popScope(c) ==
    IF Len(c.locals) > 0 /\ c.locals[Len(c.locals)].depth > c.scopeDepth
    THEN popScope([emitByte(c, IF c.locals[Len(c.locals)].isCaptured
                               THEN Byte("OP_CLOSE_UPVALUE")
                               ELSE Byte("OP_POP"))
                     EXCEPT !.locals = SubSeq(@, 1, Len(@) - 1)])
    ELSE c

endScope(c) == popScope([c EXCEPT !.scopeDepth = @ - 1])

\* resolveLocal: the index of the last local of that name, -1 if none.
localsNamed(c, name) == {i \in 1..Len(c.locals) : c.locals[i].name = name}

resolveLocal(c, name) ==
    IF localsNamed(c, name) = {} THEN -1
    ELSE (CHOOSE i \in localsNamed(c, name) :
            \A j \in localsNamed(c, name) : j <= i) - 1

\* resolveLocal reports the read of a local in its own initializer.
resolved(c, name) ==
    IF resolveLocal(c, name) # -1 /\ c.locals[resolveLocal(c, name) + 1].depth = -1
    THEN error(c, "Can't read local variable in its own initializer.")
    ELSE c

\* TokenType (scanner.h) and Precedence, lowest first, as the enums list them.
TokenType ==
    <<"TOKEN_LEFT_PAREN", "TOKEN_RIGHT_PAREN", "TOKEN_QUESTION",
      "TOKEN_LEFT_BRACE", "TOKEN_RIGHT_BRACE", "TOKEN_COLON",
      "TOKEN_COMMA", "TOKEN_DOT", "TOKEN_MINUS", "TOKEN_PLUS",
      "TOKEN_SEMICOLON", "TOKEN_SLASH", "TOKEN_STAR", "TOKEN_PERCENT",
      "TOKEN_BANG", "TOKEN_BANG_EQUAL", "TOKEN_EQUAL", "TOKEN_EQUAL_EQUAL",
      "TOKEN_GREATER", "TOKEN_GREATER_EQUAL", "TOKEN_LESS", "TOKEN_LESS_EQUAL",
      "TOKEN_IDENTIFIER", "TOKEN_STRING", "TOKEN_NUMBER",
      "TOKEN_AND", "TOKEN_CLASS", "TOKEN_ELSE", "TOKEN_FALSE", "TOKEN_DEFAULT",
      "TOKEN_FOR", "TOKEN_FUN", "TOKEN_IF", "TOKEN_NIL", "TOKEN_OR",
      "TOKEN_PRINT", "TOKEN_RETURN", "TOKEN_SUPER", "TOKEN_THIS",
      "TOKEN_CONTINUE", "TOKEN_TRUE", "TOKEN_VAR", "TOKEN_WHILE", "TOKEN_CASE",
      "TOKEN_SWITCH", "TOKEN_ERROR", "TOKEN_EOF">>

Precedence ==
    <<"PREC_NONE", "PREC_ASSIGNMENT", "PREC_CONDITIONAL", "PREC_OR",
      "PREC_AND", "PREC_EQUALITY", "PREC_COMPARISON", "PREC_TERM",
      "PREC_FACTOR", "PREC_UNARY", "PREC_CALL", "PREC_PRIMARY">>

\* The value of an enumerator.
PREC(name) == (CHOOSE i \in 1..Len(Precedence) : Precedence[i] = name) - 1

ParseRule(prefix, infix, precedence) ==
    [prefix |-> prefix, infix |-> infix, precedence |-> PREC(precedence)]

\* The entries the initializer of rules[] designates; every other element
\* of the array is zero: {NULL, NULL, PREC_NONE}.
designated ==
    <<<<"TOKEN_LEFT_PAREN",    "grouping", "call",   "PREC_CALL">>,
      <<"TOKEN_RIGHT_PAREN",   "NULL",     "NULL",   "PREC_NONE">>,
      <<"TOKEN_LEFT_BRACE",    "NULL",     "NULL",   "PREC_NONE">>,
      <<"TOKEN_RIGHT_BRACE",   "NULL",     "NULL",   "PREC_NONE">>,
      <<"TOKEN_COMMA",         "NULL",     "NULL",   "PREC_NONE">>,
      <<"TOKEN_DOT",           "NULL",     "dot",    "PREC_CALL">>,
      <<"TOKEN_MINUS",         "unary",    "binary", "PREC_TERM">>,
      <<"TOKEN_PLUS",          "NULL",     "binary", "PREC_TERM">>,
      <<"TOKEN_PERCENT",       "NULL",     "binary", "PREC_TERM">>,
      <<"TOKEN_SEMICOLON",     "NULL",     "NULL",   "PREC_NONE">>,
      <<"TOKEN_SLASH",         "NULL",     "binary", "PREC_FACTOR">>,
      <<"TOKEN_STAR",          "NULL",     "binary", "PREC_FACTOR">>,
      <<"TOKEN_BANG",          "unary",    "NULL",   "PREC_NONE">>,
      <<"TOKEN_BANG_EQUAL",    "NULL",     "binary", "PREC_EQUALITY">>,
      <<"TOKEN_EQUAL",         "NULL",     "NULL",   "PREC_NONE">>,
      <<"TOKEN_EQUAL_EQUAL",   "NULL",     "binary", "PREC_EQUALITY">>,
      <<"TOKEN_GREATER",       "NULL",     "binary", "PREC_COMPARISON">>,
      <<"TOKEN_GREATER_EQUAL", "NULL",     "binary", "PREC_COMPARISON">>,
      <<"TOKEN_LESS",          "NULL",     "binary", "PREC_COMPARISON">>,
      <<"TOKEN_LESS_EQUAL",    "NULL",     "binary", "PREC_COMPARISON">>,
      <<"TOKEN_IDENTIFIER",    "variable", "NULL",   "PREC_NONE">>,
      <<"TOKEN_STRING",        "string",   "NULL",   "PREC_NONE">>,
      <<"TOKEN_NUMBER",        "number",   "NULL",   "PREC_NONE">>,
      <<"TOKEN_AND",           "NULL",     "and_",   "PREC_AND">>,
      <<"TOKEN_CLASS",         "NULL",     "NULL",   "PREC_NONE">>,
      <<"TOKEN_ELSE",          "NULL",     "NULL",   "PREC_NONE">>,
      <<"TOKEN_FALSE",         "literal",  "NULL",   "PREC_NONE">>,
      <<"TOKEN_FOR",           "NULL",     "NULL",   "PREC_NONE">>,
      <<"TOKEN_FUN",           "NULL",     "NULL",   "PREC_NONE">>,
      <<"TOKEN_IF",            "NULL",     "NULL",   "PREC_NONE">>,
      <<"TOKEN_NIL",           "literal",  "NULL",   "PREC_NONE">>,
      <<"TOKEN_OR",            "NULL",     "or_",    "PREC_OR">>,
      <<"TOKEN_PRINT",         "NULL",     "NULL",   "PREC_NONE">>,
      <<"TOKEN_RETURN",        "NULL",     "NULL",   "PREC_NONE">>,
      <<"TOKEN_SUPER",         "super_",   "NULL",   "PREC_NONE">>,
      <<"TOKEN_THIS",          "this_",    "NULL",   "PREC_NONE">>,
      <<"TOKEN_TRUE",          "literal",  "NULL",   "PREC_NONE">>,
      <<"TOKEN_VAR",           "NULL",     "NULL",   "PREC_NONE">>,
      <<"TOKEN_WHILE",         "NULL",     "NULL",   "PREC_NONE">>,
      <<"TOKEN_ERROR",         "NULL",     "NULL",   "PREC_NONE">>,
      <<"TOKEN_EOF",           "NULL",     "NULL",   "PREC_NONE">>>>

rules ==
    [type \in {TokenType[i] : i \in 1..Len(TokenType)} |->
       IF \E i \in 1..Len(designated) : designated[i][1] = type
       THEN LET d == designated[CHOOSE i \in 1..Len(designated) :
                                  designated[i][1] = type]
            IN  ParseRule(d[2], d[3], d[4])
       ELSE ParseRule("NULL", "NULL", "PREC_NONE")]

getRule(type) == rules[type]

\* consume, of a token the statement being compiled ends an expression
\* with: the current token is that token unless the expression has ended
\* before a token of its text (c.current).
consume(c, type, message) ==
    IF c.current \in {"", type} THEN [c EXCEPT !.current = ""]
    ELSE error(c, message)

RECURSIVE expression(_, _)

\* conditional, the infix rule written for '?': both branches are compiled,
\* then OP_CONDITIONAL.  (The branches of the sources are primary
\* expressions, which every precedence parses alike.)
conditional(c, e) ==
    emitByte(expression(consume(expression(c, e.a), "TOKEN_COLON",
                                "Expect ':' after then branch of conditional operator."),
                        e.b),
             Byte("OP_CONDITIONAL"))

\* The loop of parsePrecedence(precedence) with '?' the current token, the
\* prefix rule having compiled the operand before it: the infix rule of the
\* token is called if its precedence is not below precedence, else the
\* expression ends with the '?' still the current token.
infixRule(c, e, precedence) ==
    IF precedence <= getRule("TOKEN_QUESTION").precedence
    THEN IF getRule("TOKEN_QUESTION").infix = "conditional"
         THEN conditional(c, e) ELSE c
    ELSE [c EXCEPT !.current = "TOKEN_QUESTION"]

\* c, with the record of the text  e.c ? e.a : e.b  parsed from c0 on.
parsed(c0, c, e) ==
    [c EXCEPT !.conditionals =
                 Append(@, [at       |-> c0.chunk.count,
                            end      |-> c.chunk.count,
                            height   |-> Len(c0.locals),
                            e        |-> e,
                            accepted |-> c.current = ""])]

\* expression, which is parsePrecedence(PREC_ASSIGNMENT); namedVariable for
\* a name resolveLocal finds.
expression(c, e) ==
    CASE e.x = "nil"      -> emitByte(c, Byte("OP_NIL"))
      [] e.x = "true"     -> emitByte(c, Byte("OP_TRUE"))
      [] e.x = "false"    -> emitByte(c, Byte("OP_FALSE"))
      [] e.x = "number"   -> emitConstant(c, NUMBER_VAL(e.n))
      [] e.x = "variable" -> emitBytes(resolved(c, e.name), Byte("OP_GET_LOCAL"),
                                       resolveLocal(c, e.name))
      [] e.x = "assign"   -> emitBytes(expression(resolved(c, e.name), e.e),
                                       Byte("OP_SET_LOCAL"),
                                       resolveLocal(c, e.name))
      [] e.x = "conditional" ->
           parsed(c, infixRule(expression(c, e.c), e, PREC("PREC_ASSIGNMENT")), e)

expressionStatement(c, e) ==
    emitByte(consume(expression(c, e), "TOKEN_SEMICOLON",
                     "Expect ';' after expression."),
             Byte("OP_POP"))

\* declareVariable in a local scope: the locals of the current scope are
\* searched for the name, then addLocal.
sameScope(c, name) ==
    \E i \in localsNamed(c, name) :
       \A j \in i..Len(c.locals) :
          c.locals[j].depth = -1 \/ c.locals[j].depth >= c.scopeDepth

addLocal(c, name) ==
    IF Len(c.locals) = UINT8_COUNT
    THEN error(c, "Too many local variables in function.")
    ELSE [c EXCEPT !.locals = Append(@, [name |-> name, depth |-> -1,
                                         isCaptured |-> FALSE])]

declareVariable(c, name) ==
    addLocal(IF sameScope(c, name)
             THEN error(c, "Already a variable with this name in this scope.")
             ELSE c,
             name)

markInitialized(c) == [c EXCEPT !.locals[Len(c.locals)].depth = c.scopeDepth]

\* varDeclaration in a local scope.
varDeclaration(c, st) ==
    markInitialized(consume(expression(declareVariable(c, st.name), st.e),
                            "TOKEN_SEMICOLON",
                            "Expect ';' after variable declaration."))

\* n statements  nil;  in a row, each an expressionStatement.
nilStatements(c, n) ==
    emitted(c, writeRepeated(c.chunk, <<Byte("OP_NIL"), Byte("OP_POP")>>, n,
                             c.line))

\* n statements  1;  in a row: the j-th makes the constant of index
\* Len(c.constants) + j - 1, and reports the error if that is above
\* UINT8_MAX; each is a declaration, and synchronize follows an error.
numberBytes(first, n) ==
    [i \in 1..(3 * n) |->
       CASE i % 3 = 1 -> Byte("OP_CONSTANT")
         [] i % 3 = 2 -> IF first + (i \div 3) > UINT8_MAX THEN 0
                         ELSE first + (i \div 3)
         [] i % 3 = 0 -> Byte("OP_POP")]

numberStatements(c, n) ==
    IF n = 0 THEN c
    ELSE [emitted(IF Len(c.constants) + n - 1 > UINT8_MAX
                  THEN synchronize(error(c, "Too many constants in one chunk."))
                  ELSE c,
                  [writeChunk(c.chunk, Byte("OP_CONSTANT"), c.line) EXCEPT
                     !.code     = c.chunk.code \o numberBytes(Len(c.constants), n),
                     !.count    = c.chunk.count + 3 * n,
                     !.capacity = grownFor(c.chunk.capacity, c.chunk.count + 3 * n)])
            EXCEPT !.constants = @ \o [j \in 1..n |-> NUMBER_VAL(1)],
                   !.loads = @ \o [j \in 1..n |->
                                     [at       |-> c.chunk.count + 3 * (j - 1),
                                      constant |-> Len(c.constants) + j - 1]],
                   !.grows = @ + growths(grownFor(0, Len(c.constants)),
                                         Len(c.constants) + n)]

\* The loops of the source around the statement being compiled.
NoLoop == [kind |-> "none", start |-> -1, next |-> -1, locals |-> 0]

enterLoop(c, kind) ==
    [c EXCEPT !.loops = Append(@, [kind |-> kind, start |-> c.chunk.count,
                                   next |-> c.chunk.count,
                                   locals |-> Len(c.locals)])]

leaveLoop(c) == [c EXCEPT !.loops = SubSeq(@, 1, Len(@) - 1)]

innermostLoop(c) == IF c.loops = <<>> THEN NoLoop ELSE c.loops[Len(c.loops)]

\* The locals continueStatement discards: those at the end of the array
\* whose depth is above innermostLoopScopeDepth.
RECURSIVE loopLocals(_, _)
loopLocals(c, i) ==
    IF i >= 1 /\ c.locals[i].depth > c.innermostLoopScopeDepth
    THEN 1 + loopLocals(c, i - 1) ELSE 0

\* continueStatement once the error was reported or not (c0 is the state
\* before it), with the pops emitted or not; at is the operand of the
\* OP_LOOP.
continued(c0, c, at) ==
    [c EXCEPT !.continues = Append(@, [at    |-> at,
                                       loop  |-> innermostLoop(c0),
                                       clean |-> c.hadError = c0.hadError])]

continueLoop(c0, c) ==
    continued(c0, emitLoop(c, c.innermostLoopStart), c.chunk.count + 1)

continueReported(c0, c) ==
    continueLoop(c0, emitTimes(c, Byte("OP_POP"), loopLocals(c, Len(c.locals))))

\* continueStatement without the pops of the locals of the loop body.
continueKeepingLocals(c) ==
    continueLoop(c, IF c.innermostLoopStart = -1
                    THEN error(c, "Can't use 'continue' outside of a loop.")
                    ELSE c)

continueStatement(c) ==
    continueReported(c, IF c.innermostLoopStart = -1
                        THEN error(c, "Can't use 'continue' outside of a loop.")
                        ELSE c)

\* compile() is a recursive descent; the model keeps what the functions on
\* the C stack still have to do in c.work, the next item first.  An item
\* is a declaration or a statement to compile, or the rest of a function
\* once the statement inside it is compiled, with the locals of the C
\* function that the rest uses (jump, start, sur).
Item(w, st, jump, start, sur) ==
    [w |-> w, st |-> st, jump |-> jump, start |-> start, sur |-> sur]

NoStatement == [s |-> "none", x |-> "none"]

NoSurrounding == [start |-> -1, depth |-> 0]

Declaration(st) == Item("declaration", st, -1, -1, NoSurrounding)

Statement(st) == Item("statement", st, -1, -1, NoSurrounding)

Rest(w, st, jump, start) == Item(w, st, jump, start, NoSurrounding)

declarations(body) == [i \in 1..Len(body) |-> Declaration(body[i])]

todo(c, items) == [c EXCEPT !.work = items \o @]

\* block, between beginScope and endScope.
blockStatement(c, st) ==
    todo(beginScope(c),
         declarations(st.body) \o <<Rest("endScope", NoStatement, -1, -1)>>)

\* ifStatement up to the then branch; thenJump is the operand of the
\* OP_JUMP_IF_FALSE.
ifThen(c, st) ==
    todo(emitByte(c, Byte("OP_POP")),
         <<Statement(st.then), Rest("else", st, c.chunk.count - 2, -1)>>)

ifStatement(c, st) ==
    ifThen(emitJump(expression(c, st.e), "OP_JUMP_IF_FALSE"), st)

\* ifStatement from the OP_JUMP over the else branch: its operand elseJump is
\* at c.chunk.count - 2.
elseBranch(c, st, thenJump) ==
    IF st.else.s = "none"
    THEN patchJump(emitByte(patchJump(c, thenJump), Byte("OP_POP")),
                   c.chunk.count - 2)
    ELSE todo(emitByte(patchJump(c, thenJump), Byte("OP_POP")),
              <<Statement(st.else),
                Rest("endIf", NoStatement, c.chunk.count - 2, -1)>>)

ifElse(c, st, thenJump) == elseBranch(emitJump(c, "OP_JUMP"), st, thenJump)

ifEnd(c, elseJump) == patchJump(c, elseJump)

\* whileStatement up to the body; exitJump is the operand of the
\* OP_JUMP_IF_FALSE.
whileCondition(c, st, loopStart) ==
    todo(emitByte(c, Byte("OP_POP")),
         <<Statement(st.body),
           Rest("endWhile", NoStatement, c.chunk.count - 2, loopStart)>>)

whileStatement(c, st) ==
    whileCondition(emitJump(expression(enterLoop(c, "while"), st.e),
                            "OP_JUMP_IF_FALSE"),
                   st, c.chunk.count)

whileEnd(c, loopStart, exitJump) ==
    leaveLoop(emitByte(patchJump(emitLoop(c, loopStart), exitJump),
                       Byte("OP_POP")))

\* forStatement after the body; sur holds surroundingLoopStart and
\* surroundingLoopScopeDepth.
forExit(c, exitJump) ==
    IF exitJump # -1 THEN emitByte(patchJump(c, exitJump), Byte("OP_POP")) ELSE c

forEnd(c, exitJump, sur) ==
    endScope(leaveLoop(
      [forExit(emitLoop(c, c.innermostLoopStart), exitJump) EXCEPT
         !.innermostLoopStart = sur.start,
         !.innermostLoopScopeDepth = sur.depth]))

forBody(c, st, exitJump, sur) ==
    todo(c, <<Statement(st.body), Item("endFor", NoStatement, exitJump, -1, sur)>>)

\* The increment clause, once the OP_JUMP over it is emitted: its offset
\* is incrementStart, and the operand of the jump is at incrementStart - 2.
incrementDone(c, incrementStart) ==
    patchJump([emitLoop(c, c.innermostLoopStart) EXCEPT
                 !.innermostLoopStart = incrementStart,
                 !.loops[Len(c.loops)].next = incrementStart],
              incrementStart - 2)

incrementClause(c, st, loopStart) ==
    incrementDone(emitLoop(emitByte(expression(c, st.incr), Byte("OP_POP")),
                           loopStart),
                  c.chunk.count)

forIncrement(c, st, loopStart, exitJump, sur) ==
    forBody(IF st.incr.x = "none" THEN c
            ELSE incrementClause(emitJump(c, "OP_JUMP"), st, loopStart),
            st, exitJump, sur)

\* The condition clause; exitJump is -1 without one.
conditionDone(c, st, loopStart, sur) ==
    forIncrement(emitByte(c, Byte("OP_POP")), st, loopStart, c.chunk.count - 2,
                 sur)

forCondition(c, st, sur) ==
    IF st.e.x = "none" THEN forIncrement(c, st, c.chunk.count, -1, sur)
    ELSE conditionDone(emitJump(expression(c, st.e), "OP_JUMP_IF_FALSE"), st,
                       c.chunk.count, sur)

\* forStatement once the initializer clause is compiled.
forLoop(c, st) ==
    forCondition(enterLoop([c EXCEPT !.innermostLoopStart = c.chunk.count,
                                     !.innermostLoopScopeDepth = c.scopeDepth],
                           "for"),
                 st,
                 [start |-> c.innermostLoopStart,
                  depth |-> c.innermostLoopScopeDepth])

forStatement(c, st) ==
    forLoop(CASE st.init.s = "none" -> beginScope(c)
              [] st.init.s = "var"  -> varDeclaration(beginScope(c), st.init)
              [] OTHER              -> expressionStatement(beginScope(c),
                                                           st.init.e),
            st)

\* switchStatement.  An arm of the source is a header and the statements
\* up to the next header: [kind |-> "case", e, body], [kind |-> "default",
\* body], or [kind |-> "none", body] for statements before any header.  The
\* locals of the C function are kept in the item of the work between the
\* arms: previousCaseSkip (jump), the arm to compile next (start), and in
\* sur the state, caseEnds, and the offset and locals where the statement
\* starts.  (The sources have fewer than MAX_CASES cases.)
SwitchItem(st, i, skip, sw) == Item("switchArm", st, skip, i, sw)

statements(body) == [i \in 1..Len(body) |-> Statement(body[i])]

\* The statements of arm i, then the next arm.
armBody(c, st, i, skip, sw) ==
    todo(c, statements(st.arms[i].body) \o <<SwitchItem(st, i + 1, skip, sw)>>)

\* At the end of the previous case, the jump over the others, whose
\* operand is at c.chunk.count + 1; its condition jumps to this arm.
caseEnd(c, skip) ==
    emitByte(patchJump(emitJump(c, "OP_JUMP"), skip), Byte("OP_POP"))

\* case e:  up to the OP_JUMP_IF_FALSE.
caseTest(c, e) ==
    emitJump(emitByte(consume(expression(emitByte(c, Byte("OP_DUP")), e),
                              "TOKEN_COLON", "Expect ':' after case value."),
                      Byte("OP_EQUAL")),
             "OP_JUMP_IF_FALSE")

\* The header of arm i once the previous case is ended.
armHeader(c, st, i, sw) ==
    IF st.arms[i].kind = "case"
    THEN armBody(emitByte(caseTest(c, st.arms[i].e), Byte("OP_POP")), st, i,
                 caseTest(c, st.arms[i].e).chunk.count - 2,
                 [sw EXCEPT !.state = 1])
    ELSE armBody(consume(c, "TOKEN_COLON", "Expect ':' after default."), st, i,
                 -1, [sw EXCEPT !.state = 2])

armAfter(c, st, i, skip, sw) ==
    IF sw.state = 1
    THEN armHeader(caseEnd(c, skip), st, i,
                   [sw EXCEPT !.ends = Append(@, c.chunk.count + 1)])
    ELSE armHeader(c, st, i, sw)

\* for (int i = 0; i < caseCount; i++) patchJump(caseEnds[i]);
RECURSIVE patchJumps(_, _)
patchJumps(c, ends) ==
    IF ends = <<>> THEN c ELSE patchJumps(patchJump(c, Head(ends)), Tail(ends))

\* c, with the record of the switch statement compiled from sw.at on.
switched(c, st, sw) ==
    [c EXCEPT !.switches = Append(@, [at |-> sw.at, end |-> c.chunk.count,
                                      height |-> sw.height, st |-> st,
                                      clean |-> ~c.hadError])]

\* switchStatement after the last arm.
switchEnd(c, st, skip, sw) ==
    switched(emitByte(patchJumps(IF sw.state = 1
                                 THEN emitByte(patchJump(c, skip), Byte("OP_POP"))
                                 ELSE c,
                                 sw.ends),
                      Byte("OP_POP")),
             st, sw)

\* One turn of the loop of switchStatement, at the header of arm i or at
\* the closing brace.
switchArm(c, st, i, skip, sw) ==
    IF i > Len(st.arms) THEN switchEnd(c, st, skip, sw)
    ELSE IF st.arms[i].kind = "none"
    THEN armBody(IF sw.state = 0
                 THEN error(c, "Can't have statements before any case.")
                 ELSE c,
                 st, i, skip, sw)
    ELSE armAfter(IF sw.state = 2
                  THEN error(c, "Can't have another case or default after the default case.")
                  ELSE c,
                  st, i, skip, sw)

switchStatement(c, st) ==
    todo(expression(c, st.e),
         <<SwitchItem(st, 1, -1, [state |-> 0, ends |-> <<>>,
                                  at |-> c.chunk.count,
                                  height |-> Len(c.locals)])>>)

statement(c, st) ==
    CASE st.s = "continue"   -> continueStatement(c)
      [] st.s = "for"        -> forStatement(c, st)
      [] st.s = "if"         -> ifStatement(c, st)
      [] st.s = "while"      -> whileStatement(c, st)
      [] st.s = "block"      -> blockStatement(c, st)
      [] st.s = "switch"     -> switchStatement(c, st)
      [] st.s = "expression" -> expressionStatement(c, st.e)

\* if (parser.panicMode) synchronize();
synchronized(c) == IF c.panicMode THEN synchronize(c) ELSE c

declaration(c, st) ==
    CASE st.s = "var"    -> synchronized(varDeclaration(c, st))
      [] st.s = "nil"    -> nilStatements(c, st.n)
      [] st.s = "number" -> numberStatements(c, st.n)
      [] OTHER           -> todo(c, <<Statement(st),
                                      Rest("synchronize", NoStatement, -1, -1)>>)

\* The next item of the work, c.work being the items after it.
compileItem(c, item) ==
    CASE item.w = "declaration" -> declaration(c, item.st)
      [] item.w = "statement"   -> statement(c, item.st)
      [] item.w = "synchronize" -> synchronized(c)
      [] item.w = "endScope"    -> endScope(c)
      [] item.w = "else"        -> ifElse(c, item.st, item.jump)
      [] item.w = "endIf"       -> ifEnd(c, item.jump)
      [] item.w = "endWhile"    -> whileEnd(c, item.start, item.jump)
      [] item.w = "endFor"      -> forEnd(c, item.jump, item.sur)
      [] item.w = "switchArm"   -> switchArm(c, item.st, item.start, item.jump,
                                             item.sur)

compileNext(c) == compileItem([c EXCEPT !.work = Tail(@)], Head(c.work))

\* The state of a compile that has compiled nothing: the two globals have
\* their initializers.
noUnit ==
    [chunk |-> initChunk, constants |-> <<>>, hadError |-> FALSE,
     panicMode |-> FALSE, error |-> "", locals |-> <<>>, scopeDepth |-> 0,
     innermostLoopStart |-> -1, innermostLoopScopeDepth |-> 0, line |-> 1,
     grows |-> 0, work |-> <<>>, loops |-> <<>>, jumps |-> <<>>,
     loads |-> <<>>, continues |-> <<>>, current |-> "",
     conditionals |-> <<>>, switches |-> <<>>]

\* initCompiler of the script and the parser as compile() resets it, with
\* the declarations of the source to compile; the two globals are what the
\* compile before has left.
startUnit(before, source) ==
    [noUnit EXCEPT !.locals = <<[name |-> "this", depth |-> 0,
                                 isCaptured |-> FALSE]>>,
                   !.innermostLoopStart = before.innermostLoopStart,
                   !.innermostLoopScopeDepth = before.innermostLoopScopeDepth,
                   !.work = declarations(source)]

(***************************************************************************)
(* Calls, upvalues and methods (vm.c).                                     *)
(***************************************************************************)
frame(m) == m.frames[Len(m.frames)]

\* A closure that may be called: it and its function have not been freed.
liveClosure(m, closure) ==
    /\ isObjType(m.heap, closure, "closure")
    /\ isObjType(m.heap, m.heap[closure].function, "function")

\* The call that pushes a frame whatever the number of frames.
callUnbounded(m, closure, argCount) ==
    IF ~liveClosure(m, closure) THEN undefined(m)
    ELSE IF argCount # m.heap[m.heap[closure].function].arity
    THEN runtimeError(m, "Expected arguments")
    ELSE [m EXCEPT !.frames =
            Append(@, [closure |-> closure, ip |-> 1,
                       slots |-> slotPtr(m, m.stackCount - argCount - 1)])]

call(m, closure, argCount) ==
    IF ~liveClosure(m, closure) THEN undefined(m)
    ELSE IF argCount # m.heap[m.heap[closure].function].arity
    THEN runtimeError(m, "Expected arguments")
    ELSE IF frameCount(m) = FRAMES_MAX
    THEN runtimeError(m, "Stack overflow.")
    ELSE [m EXCEPT !.frames =
            Append(@, [closure |-> closure, ip |-> 1,
                       slots |-> slotPtr(m, m.stackCount - argCount - 1)])]

\* deleteFieldNative taking any two arguments or more.
callNativeAtLeast(m, function, argCount) ==
    IF function = "deleteField"
    THEN LET instance == m.stack[m.stackCount - argCount + 1]
             name     == m.stack[m.stackCount - argCount + 2]
         IN  IF argCount < 2 \/ ~IS_OBJ_TYPE(m, instance, "instance")
                \/ ~IS_OBJ_TYPE(m, name, "string")
             THEN [m |-> m, value |-> NIL_VAL]
             ELSE [m |-> vmTableDelete(m, <<"fields", AS_OBJ(instance)>>,
                                       AS_OBJ(name)).m,
                   value |-> NIL_VAL]
    ELSE [m |-> m, value |-> NUMBER_VAL(0)]

\* clockNative and deleteFieldNative: the value the native returns and the
\* VM it leaves.  The time read by clock is not modelled.
callNative(m, function, argCount) ==
    IF function = "deleteField"
    THEN LET instance == m.stack[m.stackCount - argCount + 1]
             name     == m.stack[m.stackCount - argCount + 2]
         IN  IF argCount # 2 \/ ~IS_OBJ_TYPE(m, instance, "instance")
                \/ ~IS_OBJ_TYPE(m, name, "string")
             THEN [m |-> m, value |-> NIL_VAL]
             ELSE [m |-> vmTableDelete(m, <<"fields", AS_OBJ(instance)>>,
                                       AS_OBJ(name)).m,
                   value |-> NIL_VAL]
    ELSE [m |-> m, value |-> NUMBER_VAL(0)]

\* The OBJ_CLASS case of callValue once newInstance has returned r.
callClass(r, klass, argCount) ==
    IF r.a = NULL THEN r.m
    ELSE LET m1 == [r.m EXCEPT !.stack[r.m.stackCount - argCount] = OBJ_VAL(r.a)]
             initializer == r.m.heap[klass].initializer
         IN  IF ~IS_NIL(initializer)
             THEN (IF IS_OBJ(initializer)
                   THEN call(m1, AS_OBJ(initializer), argCount)
                   ELSE undefined(m1))
             ELSE IF argCount # 0 THEN runtimeError(m1, "Expected 0 arguments")
             ELSE m1

\* The OBJ_NATIVE case of callValue once the native has returned r.
nativeReturn(r, argCount) ==
    push([r.m EXCEPT !.stackCount = @ - (argCount + 1)], r.value)

callValue(m, callee, argCount) ==
    IF ~liveValue(m, callee) THEN undefined(m)
    ELSE IF IS_OBJ_TYPE(m, callee, "bound")
    THEN LET bound == m.heap[AS_OBJ(callee)] IN
         call([m EXCEPT !.stack[m.stackCount - argCount] = bound.receiver],
              bound.method, argCount)
    ELSE IF IS_OBJ_TYPE(m, callee, "class")
    THEN callClass(newInstance(m, AS_OBJ(callee)), AS_OBJ(callee), argCount)
    ELSE IF IS_OBJ_TYPE(m, callee, "closure")
    THEN call(m, AS_OBJ(callee), argCount)
    ELSE IF IS_OBJ_TYPE(m, callee, "native")
    THEN nativeReturn(callNative(m, m.heap[AS_OBJ(callee)].function, argCount),
                      argCount)
    ELSE runtimeError(m, "Can only call functions and classes.")

\* The open upvalues from `upvalue` on, in list order.
RECURSIVE openList(_, _, _)
openList(hp, upvalue, visited) ==
    IF upvalue = NULL \/ visited > MaxObj \/ hp[upvalue].type # "upvalue"
    THEN <<>>
    ELSE <<upvalue>> \o openList(hp, hp[upvalue].next, visited + 1)

\* The list can be walked and compared with a slot of the current block:
\* every node is an upvalue that points into that block.
openListSound(m) ==
    LET l == openList(m.heap, m.openUpvalues, 0) IN
    /\ (m.openUpvalues # NULL => Len(l) > 0)
    /\ \A i \in 1..Len(l) :
         /\ m.heap[l[i]].location.base = m.stackBase
         /\ m.heap[l[i]].next # NULL => i < Len(l)

\* The created upvalue r.a is linked between prevUpvalue and upvalue.
insertUpvalue(r, prevUpvalue, upvalue) ==
    IF r.a = NULL THEN r
    ELSE [m |-> IF prevUpvalue = NULL
                THEN [r.m EXCEPT !.heap[r.a].next = upvalue,
                                 !.openUpvalues = r.a]
                ELSE [r.m EXCEPT !.heap[r.a].next = upvalue,
                                 !.heap[prevUpvalue].next = r.a],
          a |-> r.a]

\* captureUpvalue: [m, a]
captureUpvalue(m, local) ==
    IF ~openListSound(m) \/ local.base # m.stackBase
    THEN [m |-> undefined(m), a |-> NULL]
    ELSE LET l      == openList(m.heap, m.openUpvalues, 0)
             above  == {i \in 1..Len(l) : m.heap[l[i]].location.index > local.index}
             n      == Cardinality({i \in 1..Len(l) : \A j \in 1..i : j \in above})
             prevUpvalue == IF n = 0 THEN NULL ELSE l[n]
             upvalue     == IF n < Len(l) THEN l[n + 1] ELSE NULL
         IN  IF upvalue # NULL /\ m.heap[upvalue].location.index = local.index
             THEN [m |-> m, a |-> upvalue]
             ELSE insertUpvalue(newUpvalue(m, local), prevUpvalue, upvalue)

RECURSIVE closeFrom(_, _, _)
closeFrom(m, last, visited) ==
    IF m.openUpvalues = NULL \/ visited > MaxObj THEN m
    ELSE LET upvalue == m.openUpvalues IN
         IF m.heap[upvalue].type # "upvalue" THEN undefined(m)
         ELSE IF m.heap[upvalue].location.base # last.base THEN undefined(m)
         ELSE IF m.heap[upvalue].location.index < last.index THEN m
         ELSE IF ~validPtr(m, m.heap[upvalue].location) THEN undefined(m)
         ELSE closeFrom(
                [m EXCEPT !.heap[upvalue].closed =
                              m.stack[m.heap[upvalue].location.index + 1],
                          !.heap[upvalue].location = ClosedLocation,
                          !.openUpvalues = m.heap[upvalue].next],
                last, visited + 1)

closeUpvalues(m, last) == closeFrom(m, last, 0)

\* if (name == vm.initString) klass->initializer = method; pop();
setInitializer(m, klass, name, method) ==
    pop(IF name = m.initString
        THEN [m EXCEPT !.heap[klass].initializer = method]
        ELSE m)

defineMethod(m, name) ==
    LET method == peek(m, 0)
        klass  == peek(m, 1)
    IN  IF ~IS_OBJ_TYPE(m, klass, "class") THEN undefined(m)
        ELSE setInitializer(
               vmTableSet(m, <<"methods", AS_OBJ(klass)>>, name, method).m,
               AS_OBJ(klass), name, method)

\* pop(); pop(); push(OBJ_VAL(result));
pushResult(r) == IF r.a = NULL THEN r.m ELSE push(pop(pop(r.m)), OBJ_VAL(r.a))

concatenate(m) ==
    LET b == m.heap[AS_OBJ(peek(m, 0))]
        a == m.heap[AS_OBJ(peek(m, 1))]
    IN  pushResult(takeString(reallocate(m), a.chars \o b.chars))

(***************************************************************************)
(* The instructions (the switch of run() in vm.c).  An instruction is      *)
(* [op, a, uv]: the opcode, its operand, and the operands that follow it:  *)
(* for OP_CLOSURE the <<isLocal, index>> pairs, for OP_INVOKE the argument *)
(* count.  Each handler takes the VM with the instruction already read     *)
(* (ip advanced).                                                          *)
(***************************************************************************)
frameFunction(m) == m.heap[m.heap[frame(m).closure].function]

hasConstant(m, k) == k < Len(frameFunction(m).constants)

READ_CONSTANT(m, k) == frameFunction(m).constants[k + 1]

\* READ_STRING casts the constant without a test: it must be a string.
hasString(m, k) ==
    hasConstant(m, k) /\ IS_OBJ_TYPE(m, READ_CONSTANT(m, k), "string")

READ_STRING(m, k) == AS_OBJ(READ_CONSTANT(m, k))

OP_CONSTANT(m, k) ==
    IF ~hasConstant(m, k) THEN undefined(m) ELSE push(m, READ_CONSTANT(m, k))

OP_NIL(m) == push(m, NIL_VAL)

OP_POP(m) == pop(m)

localPtr(m, slot) ==
    [base |-> frame(m).slots.base, index |-> frame(m).slots.index + slot]

OP_GET_LOCAL(m, slot) ==
    IF ~validPtr(m, localPtr(m, slot)) THEN undefined(m)
    ELSE push(m, m.stack[localPtr(m, slot).index + 1])

OP_SET_LOCAL(m, slot) ==
    IF ~validPtr(m, localPtr(m, slot)) THEN undefined(m)
    ELSE [m EXCEPT !.stack[localPtr(m, slot).index + 1] = peek(m, 0)]

OP_GET_GLOBAL(m, k) ==
    IF ~hasString(m, k) THEN undefined(m)
    ELSE LET r == vmTableGet(m, <<"globals", NULL>>, READ_STRING(m, k)) IN
         IF ~r.found THEN runtimeError(m, "Undefined variable")
         ELSE push(m, r.value)

OP_DEFINE_GLOBAL(m, k) ==
    IF ~hasString(m, k) THEN undefined(m)
    ELSE pop(vmTableSet(m, <<"globals", NULL>>, READ_STRING(m, k), peek(m, 0)).m)

\* The OP_SET_GLOBAL that raises the error and leaves the entry tableSet
\* has added.
undefinedGlobalKept(r, name) ==
    IF r.isNewKey THEN runtimeError(r.m, "Undefined variable") ELSE r.m

\* OP_SET_GLOBAL once tableSet has returned r.
undefinedGlobal(r, name) ==
    IF r.isNewKey
    THEN runtimeError(vmTableDelete(r.m, <<"globals", NULL>>, name).m,
                      "Undefined variable")
    ELSE r.m

OP_SET_GLOBAL(m, k) ==
    IF ~hasString(m, k) THEN undefined(m)
    ELSE undefinedGlobal(vmTableSet(m, <<"globals", NULL>>, READ_STRING(m, k),
                                    peek(m, 0)),
                         READ_STRING(m, k))

\* frame->closure->upvalues[slot], when it is an upvalue that can be read
hasUpvalue(m, slot) ==
    LET closure == m.heap[frame(m).closure] IN
    /\ slot < closure.upvalueCount
    /\ isObjType(m.heap, closure.upvalues[slot + 1], "upvalue")
    /\ LET location == m.heap[closure.upvalues[slot + 1]].location IN
       location = ClosedLocation \/ validPtr(m, location)

OP_GET_UPVALUE(m, slot) ==
    IF ~hasUpvalue(m, slot) THEN undefined(m)
    ELSE LET upvalue == m.heap[m.heap[frame(m).closure].upvalues[slot + 1]] IN
         push(m, IF upvalue.location = ClosedLocation THEN upvalue.closed
                 ELSE m.stack[upvalue.location.index + 1])

OP_SET_UPVALUE(m, slot) ==
    IF ~hasUpvalue(m, slot) THEN undefined(m)
    ELSE LET a       == m.heap[frame(m).closure].upvalues[slot + 1]
             upvalue == m.heap[a]
         IN  IF upvalue.location = ClosedLocation
             THEN [m EXCEPT !.heap[a].closed = peek(m, 0)]
             ELSE [m EXCEPT !.stack[upvalue.location.index + 1] = peek(m, 0)]

OP_ADD(m) ==
    IF ~liveValue(m, peek(m, 0)) \/ ~liveValue(m, peek(m, 1)) THEN undefined(m)
    ELSE IF IS_OBJ_TYPE(m, peek(m, 0), "string")
            /\ IS_OBJ_TYPE(m, peek(m, 1), "string")
    THEN concatenate(m)
    ELSE IF IS_NUMBER(peek(m, 0)) /\ IS_NUMBER(peek(m, 1))
    THEN push(pop(pop(m)), NUMBER_VAL(peek(m, 1).v + peek(m, 0).v))
    ELSE runtimeError(m, "Operands must be two numbers or two strings.")

OP_CALL(m, argCount) == callValue(m, peek(m, argCount), argCount)

\* closure->upvalues[i] = the upvalue captureUpvalue has returned
setUpvalue(r, closure, i) ==
    IF r.a = NULL THEN r.m ELSE [r.m EXCEPT !.heap[closure].upvalues[i] = r.a]

\* The loop of OP_CLOSURE over the upvalues of the new closure, from i on.
RECURSIVE closureUpvalues(_, _, _, _)
closureUpvalues(m, closure, uv, i) ==
    IF i > Len(uv) \/ m.ub \/ ~m.fits THEN m
    ELSE IF ~isObjType(m.heap, closure, "closure")
            \/ i > m.heap[closure].upvalueCount
    THEN undefined(m)
    ELSE IF uv[i][1] = 1
    THEN closureUpvalues(setUpvalue(captureUpvalue(m, localPtr(m, uv[i][2])),
                                    closure, i),
                         closure, uv, i + 1)
    ELSE IF uv[i][2] >= m.heap[frame(m).closure].upvalueCount THEN undefined(m)
    ELSE closureUpvalues(
           [m EXCEPT !.heap[closure].upvalues[i] =
                         m.heap[frame(m).closure].upvalues[uv[i][2] + 1]],
           closure, uv, i + 1)

\* OP_CLOSURE once newClosure has returned r.
pushClosure(r, uv) ==
    IF r.a = NULL THEN r.m
    ELSE closureUpvalues(push(r.m, OBJ_VAL(r.a)), r.a, uv, 1)

OP_CLOSURE(m, k, uv) ==
    IF ~hasConstant(m, k) \/ ~IS_OBJ_TYPE(m, READ_CONSTANT(m, k), "function")
    THEN undefined(m)
    ELSE pushClosure(newClosure(m, AS_OBJ(READ_CONSTANT(m, k))), uv)

OP_CLOSE_UPVALUE(m) == pop(closeUpvalues(m, slotPtr(m, m.stackCount - 1)))

\* OP_RETURN once the upvalues of the frame are closed: vm.frameCount--
\* and what follows.
returnTo(m, slots, result) ==
    IF frameCount(m) = 1
    THEN [pop(m) EXCEPT !.frames = <<>>, !.result = "OK"]
    ELSE IF slots.base # m.stackBase THEN undefined(m)
    ELSE push([m EXCEPT !.frames = SubSeq(@, 1, Len(@) - 1),
                        !.stackCount = slots.index], result)

OP_RETURN(m) ==
    returnTo(closeUpvalues(pop(m), frame(m).slots), frame(m).slots, peek(m, 0))

\* push(OBJ_VAL(object)) of the object a constructor has returned
pushObject(r) == IF r.a = NULL THEN r.m ELSE push(r.m, OBJ_VAL(r.a))

OP_CLASS(m, k) ==
    IF ~hasString(m, k) THEN undefined(m)
    ELSE pushObject(newClass(m, READ_STRING(m, k)))

OP_METHOD(m, k) ==
    IF ~hasString(m, k) THEN undefined(m)
    ELSE defineMethod(m, READ_STRING(m, k))

\* The double a / b for doubles of integer value: the quotient when b
\* divides a, the quotient and the remainder over b when it does not, and
\* for b = 0 the IEEE-754 result (an infinity, or NaN for 0 / 0).
Quotient(a, b) ==
    IF b = 0
    THEN [t |-> "num", v |-> 0,
          ieee |-> IF a = 0 THEN "NaN" ELSE IF a > 0 THEN "+Inf" ELSE "-Inf"]
    ELSE IF a % b = 0 THEN NUMBER_VAL(a \div b)
    ELSE [t |-> "num", v |-> a \div b, over |-> <<a % b, b>>]

\* BINARY_OP(NUMBER_VAL, /)
BINARY_OP(m) ==
    IF ~IS_NUMBER(peek(m, 0)) \/ ~IS_NUMBER(peek(m, 1))
    THEN runtimeError(m, "Operands must be numbers.")
    ELSE push(pop(pop(m)), Quotient(peek(m, 1).v, peek(m, 0).v))

OP_DIVIDE(m) == BINARY_OP(m)

\* The switch of run() has no case for OP_MODULUS either.
OP_MODULUS(m) == m

OP_TRUE(m) == push(m, BOOL_VAL(TRUE))

OP_DUP(m) == push(m, peek(m, 0))

OP_EQUAL(m) == push(pop(pop(m)), BOOL_VAL(valuesEqual(peek(m, 1), peek(m, 0))))

OP_FALSE(m) == push(m, BOOL_VAL(FALSE))

\* frame->ip += offset, once READ_SHORT has read the operand.
OP_JUMP(m, offset) == [m EXCEPT !.frames[Len(m.frames)].ip = @ + offset]

OP_JUMP_IF_FALSE(m, offset) ==
    IF isFalsey(peek(m, 0)) THEN OP_JUMP(m, offset) ELSE m

OP_LOOP(m, offset) == [m EXCEPT !.frames[Len(m.frames)].ip = @ - offset]

\* The switch of run() has no case for OP_INHERIT (and no default): the
\* opcode is read and the loop goes on to the next instruction.
OP_INHERIT(m) == m

\* pop(); push(OBJ_VAL(bound)); of the bound method newBoundMethod returned
pushBound(r) == IF r.a = NULL THEN r.m ELSE push(pop(r.m), OBJ_VAL(r.a))

bindMethod(m, klass, name) ==
    IF ~isObjType(m.heap, klass, "class") THEN undefined(m)
    ELSE LET method == vmTableGet(m, <<"methods", klass>>, name) IN
         IF ~method.found THEN runtimeError(m, "Undefined property")
         ELSE IF ~IS_OBJ(method.value) THEN undefined(m)
         ELSE pushBound(newBoundMethod(m, peek(m, 0), AS_OBJ(method.value)))

OP_GET_PROPERTY(m, k) ==
    IF ~liveValue(m, peek(m, 0)) THEN undefined(m)
    ELSE IF ~IS_OBJ_TYPE(m, peek(m, 0), "instance")
    THEN runtimeError(m, "Only instances have properties.")
    ELSE IF ~hasString(m, k) THEN undefined(m)
    ELSE LET instance == AS_OBJ(peek(m, 0))
             field    == vmTableGet(m, <<"fields", instance>>, READ_STRING(m, k))
         IN  IF field.found THEN push(pop(m), field.value)
             ELSE bindMethod(m, m.heap[instance].klass, READ_STRING(m, k))

\* Value value = pop(); pop(); push(value);
setProperty(m, value) == push(pop(pop(m)), value)

OP_SET_PROPERTY(m, k) ==
    IF ~liveValue(m, peek(m, 1)) THEN undefined(m)
    ELSE IF ~IS_OBJ_TYPE(m, peek(m, 1), "instance")
    THEN runtimeError(m, "Only instances have fields.")
    ELSE IF ~hasString(m, k) THEN undefined(m)
    ELSE setProperty(vmTableSet(m, <<"fields", AS_OBJ(peek(m, 1))>>,
                                READ_STRING(m, k), peek(m, 0)).m,
                     peek(m, 0))

invokeFromClass(m, klass, name, argCount) ==
    IF ~isObjType(m.heap, klass, "class") THEN undefined(m)
    ELSE LET method == vmTableGet(m, <<"methods", klass>>, name) IN
         IF ~method.found THEN runtimeError(m, "Undefined property")
         ELSE IF ~IS_OBJ(method.value) THEN undefined(m)
         ELSE call(m, AS_OBJ(method.value), argCount)

invoke(m, name, argCount) ==
    LET receiver == peek(m, argCount) IN
    IF ~liveValue(m, receiver) THEN undefined(m)
    ELSE IF ~IS_OBJ_TYPE(m, receiver, "instance")
    THEN runtimeError(m, "Only instances have methods.")
    ELSE LET field == vmTableGet(m, <<"fields", AS_OBJ(receiver)>>, name) IN
         IF field.found
         THEN callValue([m EXCEPT !.stack[m.stackCount - argCount] = field.value],
                        field.value, argCount)
         ELSE invokeFromClass(m, m.heap[AS_OBJ(receiver)].klass, name, argCount)

OP_INVOKE(m, k, argCount) ==
    IF ~hasString(m, k) THEN undefined(m)
    ELSE invoke(m, READ_STRING(m, k), argCount)

\* compile() of a source given by its statements.  Each growth of an array
\* of the chunk is a reallocate; the constants are numbers, and the chunk
\* and the constants are those of the function under construction.
RECURSIVE reallocateTimes(_, _)
reallocateTimes(m, n) ==
    IF n = 0 \/ ~m.fits THEN m ELSE reallocateTimes(reallocate(m), n - 1)

storeUnit(m, u) ==
    IF ~m.fits THEN m
    ELSE [m EXCEPT !.heap[Head(m.current)].constants = u.constants,
                   !.heap[Head(m.current)].constCapacity =
                       grownFor(0, Len(u.constants)),
                   !.unit = u]

\* What compile() has done to the VM when the compiler has gone from
\* m.unit to u.
compiledTo(m, u) == storeUnit(reallocateTimes(m, u.grows - m.unit.grows), u)

\* interpret up to the first declaration: initCompiler.
compiling(m, source) ==
    IF ~m.fits THEN m
    ELSE [m EXCEPT !.unit = startUnit(m.unit, source), !.result = "COMPILING"]

beginCompile(m, source) == compiling(initCompiler(m, ScriptEvent(0)), source)

\* resolveUpvalue in a function whose enclosing compiler is c, for names
\* that are locals of c: each local is marked captured.
captured(c, names) ==
    [c EXCEPT !.locals =
        [i \in 1..Len(c.locals) |->
           IF \E n \in 1..Len(names) : resolveLocal(c, names[n]) + 1 = i
           THEN [c.locals[i] EXCEPT !.isCaptured = TRUE]
           ELSE c.locals[i]]]

\* The loop of function() over the upvalues: isLocal, then index.
RECURSIVE emitUpvalues(_, _, _)
emitUpvalues(c, names, i) ==
    IF i > Len(names) THEN c
    ELSE emitUpvalues(emitBytes(c, 1, resolveLocal(c, names[i])), names, i + 1)

\* emitBytes(OP_CLOSURE, makeConstant(...)) once addConstant has returned,
\* the upvalues, and the end of declaration().
closureEmitted(r, st) ==
    synchronized(emitUpvalues(emitBytes(r.c, Byte("OP_CLOSURE"), r.byte),
                              st.captures, 1))

closureCompiled(m, st) ==
    IF ~m.fits THEN m
    ELSE compiledTo(m, closureEmitted(
                          constantOperand(m.unit, Len(m.unit.constants) - 1), st))

\* function() from endCompiler on; the function is the one of the current
\* compiler.
functionEnded(m, st) ==
    IF ~m.fits THEN m
    ELSE closureCompiled(
           compiledTo(endCompiler(m),
                      constantAdded(m.unit, OBJ_VAL(Head(m.current)))),
           st)

\* funDeclaration in a local scope: the name is declared and initialized,
\* then function(): initCompiler, the body (chunk st.k, which captures the
\* locals st.captures of the enclosing function), endCompiler.
funDeclaration(m, st) ==
    functionEnded(
      initCompiler(
        [m EXCEPT !.unit = captured(markInitialized(declareVariable(@, st.name)),
                                    st.captures)],
        EvFun(st.chars, st.k, 0, Len(st.captures))),
      st)

\* The next declaration, statement or rest of a statement.
compileStep(m) ==
    IF Head(m.unit.work).w = "declaration" /\ Head(m.unit.work).st.s = "fun"
    THEN funDeclaration([m EXCEPT !.unit.work = Tail(@)], Head(m.unit.work).st)
    ELSE compiledTo(m, compileNext(m.unit))

\* endCompiler and the return of compile().
unitCompiled(m) ==
    IF ~m.fits THEN [m |-> m, function |-> NULL]
    ELSE [m |-> endCompiler(m),
          function |-> IF m.unit.hadError THEN NULL ELSE Head(m.current)]

compileEnd(m) == unitCompiled(compiledTo(m, emitReturn(m.unit)))

\* interpret, up to the call of run()
\* interpret once newClosure has returned r: the function is popped, the
\* closure pushed and called; run() follows.
callScript(r) ==
    IF r.a = NULL THEN r.m
    ELSE [call(push(pop(r.m), OBJ_VAL(r.a)), r.a, 0) EXCEPT !.result = "RUNNING"]

\* interpret once compile has returned c.
interpretCompiled(c) ==
    IF ~c.m.fits THEN c.m
    ELSE IF c.function = NULL THEN [c.m EXCEPT !.result = "COMPILE_ERROR"]
    ELSE callScript(newClosure(push(c.m, OBJ_VAL(c.function)), c.function))

interpret(m, prog) == interpretCompiled(compile(m, prog))

(***************************************************************************)
(* The state after initVM.                                                 *)
(***************************************************************************)
blankVM ==
    [heap |-> [a \in Addr |-> FreeObj], objects |-> <<>>,
     stack |-> <<>>, stackCount |-> 0, stackCapacity |-> 8, stackBase |-> 0,
     moves |-> FALSE, frames |-> <<>>, openUpvalues |-> NULL,
     globals |-> initTable, strings |-> initTable, initString |-> NULL,
     current |-> <<>>, result |-> "NONE", error |-> "", trace |-> <<>>,
     unit |-> noUnit,
     ub |-> FALSE,
     fits |-> TRUE]

\* tableSet(&vm.globals, AS_STRING(vm.stack[0]), vm.stack[1]); pop(); pop();
setNative(m) ==
    pop(pop(vmTableSet(m, <<"globals", NULL>>, AS_OBJ(m.stack[1]),
                       m.stack[2]).m))

defineNative(m, name, function) ==
    setNative(pushObject(newNative(pushObject(copyString(m, name)), function)))

\* vm.initString = copyString("init", 4)
setInitString(s) == [s.m EXCEPT !.initString = s.a]

initVM ==
    defineNative(
      defineNative(setInitString(copyString(blankVM, <<105, 110, 105, 116>>)),
                   <<99, 108, 111, 99, 107>>, "clock"),
      <<100, 101, 108, 101, 116, 101, 70, 105, 101, 108, 100>>, "deleteField")

VARIABLES vm, runs, table, amap, last, chunk, written

vars == <<vm, runs, table, amap, last, chunk, written>>

(***************************************************************************)
(* The hash table on its own: any sequence of tableSet and tableDelete on  *)
(* one table, beside the map it stands for.  A key is one of NKeys         *)
(* interned strings; KeyHash gives its FNV-1a hash.  amap is the abstract  *)
(* map (the keys it binds and their values), last the result the latest    *)
(* operation returned beside the one the map prescribes.                   *)
(***************************************************************************)
NKeys == 7

KeyChars ==
    << <<97>>, <<98, 97>>, <<99>>, <<97, 98>>, <<97, 97>>, <<120>>, <<98>>,
       <<121>>, <<98, 98>> >>

Keys == 1..NKeys

KeyHash == [k \in 1..Len(KeyChars) |-> hashString(KeyChars[k])]

\* The values a key is set to: two for the first NTwoValued keys, one for
\* the others.
NTwoValued == 2

TableValues(key) ==
    IF key <= NTwoValued THEN {NUMBER_VAL(1), NUMBER_VAL(2)} ELSE {NUMBER_VAL(1)}

NoMap == [k \in Keys |-> [bound |-> FALSE, value |-> NIL_VAL]]

TableInit ==
    /\ table = initTable
    /\ amap = NoMap
    /\ last = [ret |-> FALSE, expected |-> FALSE]

TSet(key, value) ==
    LET r == tableSet(KeyHash, table, key, value) IN
    /\ table' = r.table
    /\ amap' = [amap EXCEPT ![key] = [bound |-> TRUE, value |-> value]]
    /\ last' = [ret |-> r.isNewKey, expected |-> ~amap[key].bound]

TDelete(key) ==
    LET r == tableDelete(KeyHash, table, key) IN
    /\ table' = r.table
    /\ amap' = [amap EXCEPT ![key] = [bound |-> FALSE, value |-> NIL_VAL]]
    /\ last' = [ret |-> r.found, expected |-> amap[key].bound]

(***************************************************************************)
(* A chunk on its own: any sequence of writeChunk of at most MaxBytes      *)
(* bytes with lines of 1..MaxLine, in any order.  written is the line      *)
(* passed for each byte.                                                   *)
(***************************************************************************)
MaxBytes == 6

MaxLine == 3

ChunkInit == chunk = initChunk /\ written = <<>>

WriteChunk(byte, line) ==
    /\ chunk.count < MaxBytes
    /\ chunk' = writeChunk(chunk, byte, line)
    /\ written' = Append(written, line)
    /\ UNCHANGED <<vm, runs, table, amap, last>>

(***************************************************************************)
(* The interpreter as a state machine: interpret() of a program of the     *)
(* menu, then one step per instruction executed by run().  MaxRuns bounds  *)
(* the number of programs interpreted by one VM.                           *)
(***************************************************************************)
MaxRuns == 2

Running == vm.result = "RUNNING"

\* The opcodes with a 16-bit operand.
Jumps == {"OP_JUMP", "OP_JUMP_IF_FALSE", "OP_LOOP"}

\* READ_SHORT of the two bytes after the opcode at position ip.
READ_SHORT(code, ip) == code[ip + 1] * 256 + code[ip + 2]

\* The instruction at position ip of the bytes of a compiled unit.
decode(code, ip) ==
    IF ip \notin 1..Len(code) THEN I("", 0, <<>>)
    ELSE I(OpCode[code[ip] + 1],
           IF OpCode[code[ip] + 1] \in Simple THEN 0
           ELSE IF OpCode[code[ip] + 1] \in Jumps THEN READ_SHORT(code, ip)
           ELSE code[ip + 1],
           <<>>)

\* The pairs isLocal, index that OP_CLOSURE reads after its constant, one
\* for each upvalue of the function.
closureOperands(m, code, ip) ==
    IF ip + 1 <= Len(code) /\ hasConstant(m, code[ip + 1])
       /\ IS_OBJ_TYPE(m, READ_CONSTANT(m, code[ip + 1]), "function")
    THEN [i \in 1..m.heap[AS_OBJ(READ_CONSTANT(m, code[ip + 1]))].upvalueCount |->
            <<code[ip + 2 * i], code[ip + 2 * i + 1]>>]
    ELSE <<>>

\* The instruction at frame->ip.
Fetch ==
    IF frameFunction(vm).chunk = 0
    THEN IF decode(vm.unit.chunk.code, frame(vm).ip).op = "OP_CLOSURE"
         THEN [decode(vm.unit.chunk.code, frame(vm).ip) EXCEPT
                 !.uv = closureOperands(vm, vm.unit.chunk.code, frame(vm).ip)]
         ELSE decode(vm.unit.chunk.code, frame(vm).ip)
    ELSE Chunks[frameFunction(vm).chunk][frame(vm).ip]

\* How far the READ_BYTEs and the READ_SHORT of the instruction move ip.
Size ==
    IF frameFunction(vm).chunk # 0 THEN 1
    ELSE IF Fetch.op \in Simple THEN 1
    ELSE IF Fetch.op \in Jumps THEN 3
    ELSE IF Fetch.op = "OP_CLOSURE" THEN 2 + 2 * Len(Fetch.uv) ELSE 2

\* READ_BYTE of the opcode and its operands; mv is whether a realloc of
\* this step moves the block it grows.
Read(mv) == [vm EXCEPT !.frames[Len(vm.frames)].ip = @ + Size, !.moves = mv]

\* The state a step leaves.
Commit(m) ==
    /\ m.fits
    /\ vm' = IF m.ub THEN [vm EXCEPT !.result = "UNDEFINED"]
             ELSE [m EXCEPT !.moves = FALSE]

Exec(op) ==
    Running /\ Fetch.op = op /\ UNCHANGED <<runs, table, amap, last, chunk, written>>

Interpret(prog) ==
    /\ vm.result \notin {"RUNNING", "COMPILING", "UNDEFINED"}
    /\ runs < MaxRuns
    /\ runs' = runs + 1
    /\ \E mv \in BOOLEAN :
         Commit(interpret([vm EXCEPT !.error = "", !.trace = <<>>, !.moves = mv],
                          prog))
    /\ UNCHANGED <<table, amap, last, chunk, written>>

Constant == Exec("OP_CONSTANT") /\ \E mv \in BOOLEAN : Commit(OP_CONSTANT(Read(mv), Fetch.a))

Nil == Exec("OP_NIL") /\ \E mv \in BOOLEAN : Commit(OP_NIL(Read(mv)))

Pop == Exec("OP_POP") /\ \E mv \in BOOLEAN : Commit(OP_POP(Read(mv)))

GetLocal == Exec("OP_GET_LOCAL") /\ \E mv \in BOOLEAN : Commit(OP_GET_LOCAL(Read(mv), Fetch.a))

SetLocal == Exec("OP_SET_LOCAL") /\ \E mv \in BOOLEAN : Commit(OP_SET_LOCAL(Read(mv), Fetch.a))

GetGlobal == Exec("OP_GET_GLOBAL") /\ \E mv \in BOOLEAN : Commit(OP_GET_GLOBAL(Read(mv), Fetch.a))

DefineGlobal == Exec("OP_DEFINE_GLOBAL") /\ \E mv \in BOOLEAN : Commit(OP_DEFINE_GLOBAL(Read(mv), Fetch.a))

SetGlobal == Exec("OP_SET_GLOBAL") /\ \E mv \in BOOLEAN : Commit(OP_SET_GLOBAL(Read(mv), Fetch.a))

GetUpvalue == Exec("OP_GET_UPVALUE") /\ \E mv \in BOOLEAN : Commit(OP_GET_UPVALUE(Read(mv), Fetch.a))

SetUpvalue == Exec("OP_SET_UPVALUE") /\ \E mv \in BOOLEAN : Commit(OP_SET_UPVALUE(Read(mv), Fetch.a))

Add == Exec("OP_ADD") /\ \E mv \in BOOLEAN : Commit(OP_ADD(Read(mv)))

Call == Exec("OP_CALL") /\ \E mv \in BOOLEAN : Commit(OP_CALL(Read(mv), Fetch.a))

Closure == Exec("OP_CLOSURE") /\ \E mv \in BOOLEAN : Commit(OP_CLOSURE(Read(mv), Fetch.a, Fetch.uv))

CloseUpvalue == Exec("OP_CLOSE_UPVALUE") /\ \E mv \in BOOLEAN : Commit(OP_CLOSE_UPVALUE(Read(mv)))

Return == Exec("OP_RETURN") /\ \E mv \in BOOLEAN : Commit(OP_RETURN(Read(mv)))

Class == Exec("OP_CLASS") /\ \E mv \in BOOLEAN : Commit(OP_CLASS(Read(mv), Fetch.a))

Method == Exec("OP_METHOD") /\ \E mv \in BOOLEAN : Commit(OP_METHOD(Read(mv), Fetch.a))

Inherit == Exec("OP_INHERIT") /\ \E mv \in BOOLEAN : Commit(OP_INHERIT(Read(mv)))

GetProperty == Exec("OP_GET_PROPERTY") /\ \E mv \in BOOLEAN : Commit(OP_GET_PROPERTY(Read(mv), Fetch.a))

SetProperty == Exec("OP_SET_PROPERTY") /\ \E mv \in BOOLEAN : Commit(OP_SET_PROPERTY(Read(mv), Fetch.a))

Invoke == Exec("OP_INVOKE") /\ \E mv \in BOOLEAN : Commit(OP_INVOKE(Read(mv), Fetch.a, Fetch.uv[1]))

Divide == Exec("OP_DIVIDE") /\ \E mv \in BOOLEAN : Commit(OP_DIVIDE(Read(mv)))

Modulus == Exec("OP_MODULUS") /\ \E mv \in BOOLEAN : Commit(OP_MODULUS(Read(mv)))

\* interpret of a source given by its statements, up to its first
\* declaration.
InterpretSource(source) ==
    /\ vm.result \notin {"RUNNING", "COMPILING", "UNDEFINED"}
    /\ runs < MaxRuns
    /\ runs' = runs + 1
    /\ \E mv \in BOOLEAN :
         Commit(beginCompile([vm EXCEPT !.error = "", !.trace = <<>>,
                                       !.moves = mv],
                             source))
    /\ UNCHANGED <<table, amap, last, chunk, written>>

Compiling == vm.result = "COMPILING"

\* One more declaration, statement or rest of a statement compiled.
Compile ==
    /\ Compiling /\ vm.unit.work # <<>>
    /\ \E mv \in BOOLEAN : Commit(compileStep([vm EXCEPT !.moves = mv]))
    /\ UNCHANGED <<runs, table, amap, last, chunk, written>>

\* The end of the text: compile returns, and interpret calls the script.
Compiled ==
    /\ Compiling /\ vm.unit.work = <<>>
    /\ \E mv \in BOOLEAN :
         Commit(interpretCompiled(compileEnd([vm EXCEPT !.moves = mv])))
    /\ UNCHANGED <<runs, table, amap, last, chunk, written>>

Dup == Exec("OP_DUP") /\ \E mv \in BOOLEAN : Commit(OP_DUP(Read(mv)))

Equal == Exec("OP_EQUAL") /\ \E mv \in BOOLEAN : Commit(OP_EQUAL(Read(mv)))

True == Exec("OP_TRUE") /\ \E mv \in BOOLEAN : Commit(OP_TRUE(Read(mv)))

False == Exec("OP_FALSE") /\ \E mv \in BOOLEAN : Commit(OP_FALSE(Read(mv)))

Jump == Exec("OP_JUMP") /\ \E mv \in BOOLEAN : Commit(OP_JUMP(Read(mv), Fetch.a))

JumpIfFalse ==
    Exec("OP_JUMP_IF_FALSE") /\ \E mv \in BOOLEAN :
        Commit(OP_JUMP_IF_FALSE(Read(mv), Fetch.a))

Loop == Exec("OP_LOOP") /\ \E mv \in BOOLEAN : Commit(OP_LOOP(Read(mv), Fetch.a))

Init == vm = initVM /\ runs = 0 /\ TableInit /\ ChunkInit

\* The programs of the general specification.
Programs ==
    {StringsProgram, LiteralProgram, AssignProgram, ReadProgram,
     EscapeErrorProgram, EscapeProgram, CallGProgram, BlockProgram,
     ClassProgram, SyntaxErrorProgram, ConcatProgram}

Next ==
    \/ \E prog \in Programs : Interpret(prog)
    \/ Constant
    \/ Nil
    \/ Pop
    \/ GetLocal
    \/ SetLocal
    \/ GetGlobal
    \/ DefineGlobal
    \/ SetGlobal
    \/ GetUpvalue
    \/ SetUpvalue
    \/ Add
    \/ Call
    \/ Closure
    \/ CloseUpvalue
    \/ Return
    \/ Class
    \/ Method

Spec == Init /\ [][Next]_vars

\* The programs of deep recursion and of arity.
FramePrograms == {RecursionProgram, ArityErrorProgram, ArityProgram}

NextFrames ==
    \/ \E prog \in FramePrograms : Interpret(prog)
    \/ Constant
    \/ Nil
    \/ Pop
    \/ GetGlobal
    \/ DefineGlobal
    \/ Call
    \/ Closure
    \/ Return

SpecFrames == Init /\ [][NextFrames]_vars

\* The programs of classes, instances and properties.
ClassPrograms ==
    {InheritProgram, InitProgram, ClockProgram, NoInitProgram, InvokeProgram,
     FieldProgram}

NextClasses ==
    \/ \E prog \in ClassPrograms : Interpret(prog)
    \/ Constant
    \/ Nil
    \/ Pop
    \/ GetGlobal
    \/ DefineGlobal
    \/ Call
    \/ Closure
    \/ Return
    \/ Class
    \/ Method
    \/ Inherit
    \/ GetProperty
    \/ SetProperty
    \/ Invoke

SpecClasses == Init /\ [][NextClasses]_vars

\* The programs of the native deleteField, each run by a VM of its own.
NativePrograms ==
    {DeleteProgram, MisuseProgram, TwoInstancesProgram, AbsentProgram}

NextNative ==
    \/ \E prog \in NativePrograms : runs = 0 /\ Interpret(prog)
    \/ Constant
    \/ Nil
    \/ Pop
    \/ GetGlobal
    \/ DefineGlobal
    \/ Call
    \/ Return
    \/ Class
    \/ GetProperty
    \/ SetProperty

SpecNative == Init /\ [][NextNative]_vars

\* The programs of division and of runtime errors inside calls.
ErrorPrograms ==
    {DivideProgram, ModulusProgram, QuotientProgram, OperandProgram,
     EscapeErrorProgram, ArityErrorProgram, CallGProgram}

NextErrors ==
    \/ \E prog \in ErrorPrograms : Interpret(prog)
    \/ Constant
    \/ Nil
    \/ Pop
    \/ GetLocal
    \/ GetGlobal
    \/ DefineGlobal
    \/ SetGlobal
    \/ GetUpvalue
    \/ Call
    \/ Closure
    \/ Return
    \/ Divide
    \/ Modulus

SpecErrors == Init /\ [][NextErrors]_vars

(***************************************************************************)
(* The sources given by their statements, and their specification.         *)
(***************************************************************************)
none == NoStatement

nil == [x |-> "nil"]

true == [x |-> "true"]

false == [x |-> "false"]

number(n) == [x |-> "number", n |-> n]

variable(name) == [x |-> "variable", name |-> name]

assign(name, e) == [x |-> "assign", name |-> name, e |-> e]

\* c ? a : b
ternary(c, a, b) == [x |-> "conditional", c |-> c, a |-> a, b |-> b]

nils(n) == [s |-> "nil", n |-> n]

numbers(n) == [s |-> "number", n |-> n]

exprStmt(e) == [s |-> "expression", e |-> e]

var(name, e) == [s |-> "var", name |-> name, e |-> e]

Block(body) == [s |-> "block", body |-> body]

if(e, then, else) == [s |-> "if", e |-> e, then |-> then, else |-> else]

while(e, body) == [s |-> "while", e |-> e, body |-> body]

for(init, e, incr, body) ==
    [s |-> "for", init |-> init, e |-> e, incr |-> incr, body |-> body]

continue == [s |-> "continue"]

fun(name, chars, captures, k) ==
    [s |-> "fun", name |-> name, chars |-> chars, captures |-> captures, k |-> k]

switch(e, arms) == [s |-> "switch", e |-> e, arms |-> arms]

case(e, body) == [kind |-> "case", e |-> e, body |-> body]

default(body) == [kind |-> "default", body |-> body]

\* 1; 1; ... 1;  (n statements)
ConstantsSource(n) == <<numbers(n)>>

\* if (false) { nil; ... nil; 1; ... 1; }  (n times nil; and k times 1;)
IfSource(n, k) == <<if(false, Block(<<nils(n), numbers(k)>>), none)>>

\* while (false) { nil; ... nil; 1; ... 1; }
WhileSource(n, k) == <<while(false, Block(<<nils(n), numbers(k)>>))>>

\* { var c = true; while (c) { c = false; if (false) { nil; ... 1; ... } } }
LoopSource(n, k) ==
    <<Block(<<var("c", true),
              while(variable("c"),
                    Block(<<exprStmt(assign("c", false)),
                            if(false, Block(<<nils(n), numbers(k)>>), none)>>))>>)>>

\* { var c = true;
\*   for (var i = 1; c; c = false) { var a = 2; continue; 3; } }
ForContinueSource ==
    <<Block(<<var("c", true),
              for(var("i", number(1)), variable("c"), assign("c", false),
                  Block(<<var("a", number(2)), continue,
                          exprStmt(number(3))>>))>>)>>

\* { var c = true; for (; c;) { var a = 2; c = false; continue; } }
ForPlainSource ==
    <<Block(<<var("c", true),
              for(none, variable("c"), none,
                  Block(<<var("a", number(2)), exprStmt(assign("c", false)),
                          continue>>))>>)>>

\* while (false) { continue; }
WhileContinueSource == <<while(false, Block(<<continue>>))>>

\* { var c = true;
\*   for (; c; c = false) { var a; while (c) { var b; continue; } } }
ForWhileSource ==
    <<Block(<<var("c", true),
              for(none, variable("c"), assign("c", false),
                  Block(<<var("a", nil),
                          while(variable("c"),
                                Block(<<var("b", nil), continue>>))>>))>>)>>

\* continue;
ContinueSource == <<continue>>

\* true ? 1 : 2;
ConditionalSource == <<exprStmt(ternary(true, number(1), number(2)))>>

\* { var r = false ? 1 : 2; r; }
ConditionalVarSource ==
    <<Block(<<var("r", ternary(false, number(1), number(2))),
              exprStmt(variable("r"))>>)>>

\* { var r = 0; switch (n) { case ks[1]: r = 1; case ks[2]: r = 2; ... } }
\* with  default: r = Len(ks) + 1;  after the cases if d.
storeArm(i) == <<exprStmt(assign("r", number(i)))>>

SwitchSource(n, ks, d) ==
    <<Block(<<var("r", number(0)),
              switch(number(n),
                     [i \in 1..Len(ks) |-> case(number(ks[i]), storeArm(i))]
                       \o IF d THEN <<default(storeArm(Len(ks) + 1))>>
                          ELSE <<>>)>>)>>

SwitchSources ==
    {SwitchSource(1, <<1, 2>>, FALSE), SwitchSource(2, <<1, 2>>, TRUE),
     SwitchSource(2, <<1, 2>>, FALSE), SwitchSource(3, <<1, 2>>, TRUE),
     SwitchSource(3, <<1, 2>>, FALSE), SwitchSource(1, <<1, 1>>, TRUE)}

\* The n for which the jump over the then branch of IfSource(n, 1), and the
\* loop of LoopSource(n, 1), are UINT16_MAX bytes long; with n + 2 and
\* no  1;  they are one byte longer.
JumpFill == (UINT16_MAX - 7) \div 2

LoopFill == (UINT16_MAX - 25) \div 2

Sources ==
    {ConstantsSource(UINT8_COUNT), ConstantsSource(UINT8_COUNT + 1),
     IfSource(1, 1), IfSource(JumpFill, 1), IfSource(JumpFill + 2, 0),
     WhileSource(1, 1), LoopSource(1, 1), LoopSource(LoopFill, 1),
     LoopSource(LoopFill + 2, 0),
     ForContinueSource, ForPlainSource, WhileContinueSource, ForWhileSource,
     ContinueSource, ConditionalSource, ConditionalVarSource}

NextCompiler ==
    \/ \E source \in Sources : InterpretSource(source)
    \/ Compile
    \/ Compiled
    \/ Constant
    \/ Nil
    \/ True
    \/ False
    \/ Pop
    \/ GetLocal
    \/ SetLocal
    \/ Jump
    \/ JumpIfFalse
    \/ Loop
    \/ Return

SpecCompiler == Init /\ [][NextCompiler]_vars

\* The switch statements on their own.
NextSwitch ==
    \/ \E source \in SwitchSources : InterpretSource(source)
    \/ Compile
    \/ Compiled
    \/ Constant
    \/ Nil
    \/ Pop
    \/ Dup
    \/ Equal
    \/ SetLocal
    \/ Jump
    \/ JumpIfFalse
    \/ Return

SpecSwitch == Init /\ [][NextSwitch]_vars

(***************************************************************************)
(* writeConstant and the decoders of its operand (chunk.c, vm.c, debug.c). *)
(* The chunk is that of writeChunk with its value array: constants is      *)
(* [filled, count, capacity, values], a pool whose first `filled` entries  *)
(* were added before (each the number 0) and whose later entries are       *)
(* values, in order.                                                       *)
(***************************************************************************)
MaxConstants == 3

\* The counts of the pools writeConstant is applied to.
PoolCounts ==
    {0, UINT8_MAX - 1, UINT8_MAX, UINT8_MAX + 2, 2 * UINT8_COUNT - 2,
     UINT16_MAX - 1, UINT16_MAX, 2 * (UINT16_MAX + 1) + UINT8_MAX}

\* The capacity GROW_CAPACITY has given an array of count entries.
RECURSIVE grownTo(_, _)
grownTo(capacity, count) ==
    IF capacity >= count THEN capacity
    ELSE grownTo(GROW_CAPACITY(capacity), count)

poolChunk(n) ==
    [count |-> 0, capacity |-> 0, code |-> <<>>,
     lineCount |-> 0, lineCapacity |-> 0, lines |-> <<>>,
     constants |-> [filled |-> n, count |-> n, capacity |-> grownTo(0, n),
                    values |-> <<>>]]

writeValueArray(array, value) ==
    [array EXCEPT
       !.capacity = IF @ < array.count + 1 THEN GROW_CAPACITY(@) ELSE @,
       !.values = Append(@, value),
       !.count = @ + 1]

\* addConstant: [chunk, constant], the chunk with the value added and the
\* index of the value.
addConstantTo(ch, value) ==
    [chunk    |-> [ch EXCEPT !.constants = writeValueArray(@, value)],
     constant |-> ch.constants.count]

\* (uint8_t)(n >> shift & 0xFF)
byteOf(n, shift) == (n \div (2 ^ shift)) % 256

writeConstant(ch, value, line) ==
    LET a == addConstantTo(ch, value) IN
    IF a.constant < 256
    THEN writeChunk(writeChunk(a.chunk, Byte("OP_CONSTANT"), line),
                    byteOf(a.constant, 0), line)
    ELSE writeChunk(
           writeChunk(
             writeChunk(
               writeChunk(a.chunk, Byte("OP_CONSTANT_LONG"), line),
               byteOf(a.constant, 0), line),
             byteOf(a.constant, 8), line),
           byteOf(a.constant, 16), line)

\* constants.values[index]; reading beyond count is undefined.
valueAt(array, index) ==
    IF index < array.filled THEN [value |-> NUMBER_VAL(0), ub |-> FALSE]
    ELSE IF index < array.count
    THEN [value |-> array.values[index - array.filled + 1], ub |-> FALSE]
    ELSE [value |-> NIL_VAL, ub |-> TRUE]

\* The orders in which the three READ_BYTE() of READ_CONSTANT_LONG may be
\* evaluated: order[k] is the turn of the k-th READ_BYTE() of the text.
\* (Each is *frame->ip++ and nothing sequences them: the C standard leaves
\* the outcome undefined, and a build evaluates them in one of the orders.)
ReadOrders ==
    {o \in [1..3 -> 1..3] : \A j, k \in 1..3 : o[j] = o[k] => j = k}

\* READ_CONSTANT_LONG with the opcode at C offset `offset`:
\* (READ_BYTE() << 16) | (READ_BYTE() << 8) | READ_BYTE()
READ_CONSTANT_LONG(code, offset, order) ==
    code[offset + 1 + order[1]] * 65536 + code[offset + 1 + order[2]] * 256
        + code[offset + 1 + order[3]]

\* The index longConstantInstruction prints for the instruction at offset:
\* code[offset + 1] | code[offset + 2] << 8 | code[offset + 3] << 16
longConstantInstruction(code, offset) ==
    code[offset + 2] + code[offset + 3] * 256 + code[offset + 4] * 65536

\* written is, for each writeConstant, where its instruction starts and
\* the index and the value it added; last is what the VM and the
\* disassembler made of the instruction read last.
InitLong ==
    /\ vm = initVM /\ runs = 0
    /\ table = initTable /\ amap = NoMap
    /\ last = [at |-> 0, constant |-> 0, vm |-> 0, debug |-> 0,
               pushed |-> NIL_VAL, value |-> NIL_VAL, ub |-> FALSE,
               read |-> FALSE]
    /\ \E n \in PoolCounts : chunk = poolChunk(n)
    /\ written = <<>>

WriteConstant(value, line) ==
    /\ Len(written) < MaxConstants
    /\ chunk' = writeConstant(chunk, value, line)
    /\ written' = Append(written, [at |-> chunk.count,
                                   constant |-> chunk.constants.count,
                                   value |-> value])
    /\ UNCHANGED <<vm, runs, table, amap, last>>

\* The case OP_CONSTANT_LONG of run() and longConstantInstruction, on the
\* instruction of the w-th writeConstant.
ReadConstantLong(w, order) ==
    /\ chunk.code[written[w].at + 1] = Byte("OP_CONSTANT_LONG")
    /\ LET index == READ_CONSTANT_LONG(chunk.code, written[w].at, order)
           read  == valueAt(chunk.constants, index)
       IN  last' = [at |-> written[w].at, constant |-> written[w].constant,
                    vm |-> index,
                    debug |-> longConstantInstruction(chunk.code, written[w].at),
                    pushed |-> read.value, value |-> written[w].value,
                    ub |-> read.ub, read |-> TRUE]
    /\ UNCHANGED <<vm, runs, table, amap, chunk, written>>

NextLong ==
    \/ \E value \in {NUMBER_VAL(1), NUMBER_VAL(2)}, line \in 1..2 :
          WriteConstant(value, line)
    \/ \E w \in 1..Len(written), order \in ReadOrders : ReadConstantLong(w, order)

SpecLong == InitLong /\ [][NextLong]_vars

(***************************************************************************)
(* The dispatch loop of run() on the bytes of a chunk of the menu, as far  *)
(* as frame->ip goes: each iteration reads the opcode at ip and, in the    *)
(* case of that opcode, its operands.  chunk is the chunk of the frame and *)
(* last is [k, ip, op]: the number of the chunk, ip as an offset, and the   *)
(* opcode the iteration before has read ("" before the first).  The frame  *)
(* is followed up to its first OP_RETURN; the menu has no jumps.           *)
(***************************************************************************)
\* The opcodes the switch of run() has a case for.
Cases ==
    {"OP_CONSTANT", "OP_CONSTANT_LONG", "OP_NIL", "OP_TRUE", "OP_FALSE",
     "OP_POP", "OP_GET_LOCAL", "OP_SET_LOCAL", "OP_GET_GLOBAL",
     "OP_DEFINE_GLOBAL", "OP_SET_GLOBAL", "OP_GET_UPVALUE", "OP_SET_UPVALUE",
     "OP_GET_PROPERTY", "OP_SET_PROPERTY", "OP_EQUAL", "OP_GREATER", "OP_LESS",
     "OP_ADD", "OP_DUP", "OP_SUBTRACT", "OP_MULTIPLY", "OP_DIVIDE", "OP_NOT",
     "OP_NEGATE", "OP_PRINT", "OP_JUMP", "OP_JUMP_IF_FALSE", "OP_LOOP",
     "OP_CALL", "OP_INVOKE", "OP_CLOSURE", "OP_CLOSE_UPVALUE", "OP_RETURN",
     "OP_CLASS", "OP_METHOD"}

\* The offsets at which the compiler wrote an opcode in chunk k.
Boundaries(k) == {bytesBefore(k, i) : i \in 1..Len(Chunks[k])}

\* The instruction the compiler wrote at an offset that is a boundary.
writtenAt(k, offset) ==
    Chunks[k][CHOOSE i \in 1..Len(Chunks[k]) : bytesBefore(k, i) = offset]

\* The opcode a byte is ("": none).
opcodeOf(byte) == IF byte < Len(OpCode) THEN OpCode[byte + 1] ELSE ""

\* The READ_BYTEs of the case of the opcode at offset, the opcode apart
\* (none when the switch has no case for it).  The case OP_CLOSURE reads
\* two bytes per upvalue of the function its operand names.
operandsRead(k, code, offset) ==
    LET op == opcodeOf(code[offset + 1]) IN
    IF op \notin Cases THEN 0
    ELSE IF op = "OP_CONSTANT_LONG" THEN 3
    ELSE IF op \in {"OP_JUMP", "OP_JUMP_IF_FALSE", "OP_LOOP", "OP_INVOKE"} THEN 2
    ELSE IF op = "OP_CLOSURE"
    THEN 1 + (IF offset \in Boundaries(k)
              THEN 2 * Len(writtenAt(k, offset).uv) ELSE 0)
    ELSE IF op \in {"OP_CONSTANT", "OP_GET_LOCAL", "OP_SET_LOCAL",
                    "OP_GET_GLOBAL", "OP_DEFINE_GLOBAL", "OP_SET_GLOBAL",
                    "OP_GET_UPVALUE", "OP_SET_UPVALUE", "OP_GET_PROPERTY",
                    "OP_SET_PROPERTY", "OP_CALL", "OP_CLASS", "OP_METHOD"}
    THEN 1
    ELSE 0

InitDispatch ==
    /\ vm = initVM /\ runs = 0
    /\ table = initTable /\ amap = NoMap
    /\ written = <<>>
    /\ \E k \in 1..Len(Chunks) :
          chunk = menuChunk(k) /\ last = [k |-> k, ip |-> 0, op |-> ""]

\* One iteration of the loop.
Dispatch ==
    /\ last.ip < chunk.count
    /\ last.op # "OP_RETURN"
    /\ last' = [last EXCEPT
                  !.ip = @ + 1 + operandsRead(last.k, chunk.code, @),
                  !.op = opcodeOf(chunk.code[last.ip + 1])]
    /\ UNCHANGED <<vm, runs, table, amap, chunk, written>>

SpecDispatch == InitDispatch /\ [][Dispatch]_vars

\* The chunk on its own.
NextChunk == \E line \in 1..MaxLine : WriteChunk(0, line)

SpecChunk == Init /\ [][NextChunk]_vars

\* The hash table on its own.
NextTable ==
    \/ \E key \in Keys : \E value \in TableValues(key) :
         TSet(key, value) /\ UNCHANGED <<vm, runs, chunk, written>>
    \/ \E key \in Keys : TDelete(key) /\ UNCHANGED <<vm, runs, chunk, written>>

SpecTable == Init /\ [][NextTable]_vars

(***************************************************************************)
(* Reachability: the roots of the VM and the references of an object that  *)
(* the specification lists for blackening.                                 *)
(***************************************************************************)
valueObjects(values) ==
    {AS_OBJ(values[i]) : i \in {j \in 1..Len(values) : IS_OBJ(values[j])}}

tableObjects(t) ==
    {t.entries[i].key : i \in 1..t.capacity}
        \cup valueObjects([i \in 1..t.capacity |-> t.entries[i].value])

ListedReferences(hp, a) ==
    LET o == hp[a] IN
    CASE o.type = "function" -> {o.name} \cup valueObjects(o.constants)
      [] o.type = "closure"  -> {o.function} \cup {o.upvalues[i] : i \in 1..Len(o.upvalues)}
      [] o.type = "upvalue"  -> valueObjects(<<o.closed>>)
      [] o.type = "class"    ->
           {o.name} \cup tableObjects(o.methods) \cup valueObjects(<<o.initializer>>)
      [] o.type = "instance" -> {o.klass} \cup tableObjects(o.fields)
      [] o.type = "bound"    -> valueObjects(<<o.receiver>>) \cup {o.method}
      [] OTHER -> {}

openUpvalueRoots(m) ==
    LET l == openList(m.heap, m.openUpvalues, 0) IN
    {m.openUpvalues} \cup {m.heap[l[i]].next : i \in 1..Len(l)}

Roots(m) ==
    valueObjects(SubSeq(m.stack, 1, m.stackCount))
        \cup {m.frames[i].closure : i \in 1..Len(m.frames)}
        \cup openUpvalueRoots(m)
        \cup tableObjects(m.globals)
        \cup {m.current[i] : i \in 1..Len(m.current)}

RECURSIVE ReachableFrom(_, _)
ReachableFrom(hp, S) ==
    LET T == (S \cup UNION {ListedReferences(hp, a) : a \in S}) \ {NULL} IN
    IF T = S THEN S ELSE ReachableFrom(hp, T)

Reachable(m) == ReachableFrom(m.heap, Roots(m) \ {NULL})

Allocated(m) == {m.objects[i] : i \in 1..Len(m.objects)}

(***************************************************************************)
(* C1.  After any garbage collection, every object reachable from a root   *)
(* (live stack slot, frame closure, open upvalue, global key or value,     *)
(* compiler function) through the references listed for blackening is in   *)
(* the allocation list and has not been freed.  Every state of the         *)
(* interpreter follows the collections run so far (initVM alone runs       *)
(* several), so this is stated of every state.                             *)
(***************************************************************************)
ReachableKept ==
    vm.result # "UNDEFINED" =>
        \A a \in Reachable(vm) :
            a \in Allocated(vm) /\ vm.heap[a].type # "free"

(***************************************************************************)
(* C2.  The intern table holds at most one string object per content: its  *)
(* keys are the strings of the heap, and two strings of equal content are  *)
(* the same object.  So the string OP_ADD leaves for "a" + "b" is the      *)
(* object of the literal "ab", also when the probe for it passes a         *)
(* tombstone of vm.strings.                                                *)
(***************************************************************************)
IsString(m, a) == m.heap[a].type = "string"

InternedOnce ==
    vm.result # "UNDEFINED" =>
        /\ \A a \in Addr : IsString(vm, a) <=> a \in tableKeys(vm.strings)
        /\ \A a, b \in Addr :
              IsString(vm, a) /\ IsString(vm, b)
                  /\ vm.heap[a].chars = vm.heap[b].chars => a = b

\* The entry where the probe for this hash starts is a tombstone.
startsAtTombstone(t, hash) ==
    /\ t.capacity > 0
    /\ t.entries[hashIndex(hash, t.capacity) + 1] = Tombstone

\* OP_ADD has just left "ab", found past a tombstone of vm.strings, and the
\* global a defined from the literal "ab" holds the same object.
ConcatenatedIsLiteral ==
    /\ Running
    /\ frame(vm).ip > 1
    /\ Chunks[frameFunction(vm).chunk][frame(vm).ip - 1].op = "OP_ADD"
    /\ IS_OBJ_TYPE(vm, peek(vm, 0), "string")
    /\ vm.heap[AS_OBJ(peek(vm, 0))].chars = <<97, 98>>
    /\ startsAtTombstone(vm.strings, hashString(<<97, 98>>))
    /\ vmTableGet(vm, <<"globals", NULL>>,
                  tableFindString(vm.heap, vm.strings, <<97>>,
                                  hashString(<<97>>))).value = peek(vm, 0)

(***************************************************************************)
(* C3.  In every state each upvalue that is open (its location is a stack  *)
(* slot) is on the vm.openUpvalues list, the list is in strictly           *)
(* descending order of slot, and no slot has two open upvalues.            *)
(***************************************************************************)
IsOpenUpvalue(m, a) ==
    m.heap[a].type = "upvalue" /\ m.heap[a].location # ClosedLocation

OpenUpvaluesListed ==
    vm.result # "UNDEFINED" =>
        LET l == openList(vm.heap, vm.openUpvalues, 0) IN
        /\ \A a \in Addr :
              IsOpenUpvalue(vm, a) => \E i \in 1..Len(l) : l[i] = a
        /\ \A i, j \in 1..Len(l) :
              i < j => vm.heap[l[i]].location.index > vm.heap[l[j]].location.index
        /\ \A a, b \in Addr :
              IsOpenUpvalue(vm, a) /\ IsOpenUpvalue(vm, b)
                  /\ vm.heap[a].location = vm.heap[b].location => a = b

(***************************************************************************)
(* C4.  Immediately after OP_RETURN no open upvalue refers to a stack slot *)
(* at or above the base of the frame that returned.                        *)
(***************************************************************************)
ReturnStep == Running /\ Fetch.op = "OP_RETURN" /\ vm'.result # "UNDEFINED"

ReturnClosesUpvalues ==
    [][ReturnStep =>
         \A a \in Addr :
             IsOpenUpvalue(vm', a) /\ vm'.heap[a].location.base = vm.stackBase
                 => vm'.heap[a].location.index < frame(vm).slots.index]_vars

(***************************************************************************)
(* C5.  When collectGarbage returns, every object left in the allocation   *)
(* list has isMarked = false and was marked by that collection, and every  *)
(* object unmarked at sweep time is off the list.  It is stated of the     *)
(* collections run so far (no listed object of a state is marked) and of   *)
(* the collection the next allocation runs from the state.                 *)
(***************************************************************************)
\* g is the marking the collection of m reaches, swept the VM it leaves.
SweptAfter(m, g, swept) ==
    /\ \A a \in Allocated(swept) :
          ~swept.heap[a].isMarked /\ g.heap[a].isMarked /\ a \in Allocated(m)
    /\ \A a \in Allocated(m) :
          ~g.heap[a].isMarked => a \notin Allocated(swept)

CollectedOf(m, g) == SweptAfter(m, g, sweep(m, g))

SweepLeavesMarkedUnmarked ==
    vm.result # "UNDEFINED" =>
        /\ \A a \in Allocated(vm) : ~vm.heap[a].isMarked
        /\ CollectedOf(vm, traceReferences(markRoots(vm)))

\* A state whose collection unlinks one object and keeps another that the
\* marking reached through a reference (neither is a root).
CollectionUnlinksSome ==
    /\ Running
    /\ \E a \in Allocated(vm) : a \notin Allocated(collectGarbage(vm))
    /\ \E a \in Allocated(collectGarbage(vm)) : a \notin Roots(vm)

(***************************************************************************)
(* C6.  A runtime error leaves the value stack and the frame stack empty   *)
(* and the result RUNTIME_ERROR, with the globals and the objects they     *)
(* refer to as they were; the next interpret call finds every global       *)
(* defined before the error defined with the same value.                   *)
(***************************************************************************)
\* Every global of m1 is a global of m2 with the same value, and the object
\* that value refers to is the same in both.
GlobalsKept(m1, m2) ==
    \A k \in tableKeys(m1.globals) :
        LET v == vmTableGet(m1, <<"globals", NULL>>, k).value IN
        /\ m2.heap[k] = m1.heap[k]
        /\ vmTableGet(m2, <<"globals", NULL>>, k) = [found |-> TRUE, value |-> v]
        /\ IS_OBJ(v) => m2.heap[AS_OBJ(v)] = m1.heap[AS_OBJ(v)]

RuntimeErrorStep == vm.result = "RUNNING" /\ vm'.result = "RUNTIME_ERROR"

InterpretAfterError ==
    vm.result = "RUNTIME_ERROR" /\ runs' = runs + 1 /\ vm'.result # "UNDEFINED"

RuntimeErrorResets ==
    [][/\ RuntimeErrorStep =>
            /\ vm'.stackCount = 0
            /\ frameCount(vm') = 0
            /\ GlobalsKept(vm, vm')
       /\ InterpretAfterError => GlobalsKept(vm, vm')]_vars

\* The error of calling nil inside f, after global G was assigned a closure;
\* the VM may interpret another program.
ErrorAfterAssignment ==
    /\ vm.result = "RUNTIME_ERROR"
    /\ vm.error = "Can only call functions and classes."
    /\ runs < MaxRuns
    /\ \E k \in tableKeys(vm.globals) :
          IS_OBJ_TYPE(vm, vmTableGet(vm, <<"globals", NULL>>, k).value, "closure")

(***************************************************************************)
(* C7.  When the compilation reports an error, interpret returns           *)
(* COMPILE_ERROR and executes nothing: the value stack, the frame stack    *)
(* and the globals are after the call as they were before it.              *)
(***************************************************************************)
CompileErrorStep ==
    /\ \E prog \in Programs : prog.hadError /\ Interpret(prog)
    /\ vm'.result # "UNDEFINED"

CompileErrorRunsNothing ==
    [][CompileErrorStep =>
         /\ vm'.result = "COMPILE_ERROR"
         /\ vm'.stackCount = vm.stackCount
         /\ SubSeq(vm'.stack, 1, vm'.stackCount) = SubSeq(vm.stack, 1, vm.stackCount)
         /\ vm'.frames = vm.frames
         /\ GlobalsKept(vm, vm')
         /\ tableKeys(vm'.globals) = tableKeys(vm.globals)]_vars

\* A compile error reported to a VM whose earlier program defined globals
\* beside the two natives.
CompileErrorWithGlobals ==
    /\ vm.result = "COMPILE_ERROR"
    /\ runs = 2
    /\ Cardinality(tableKeys(vm.globals)) > 2

(***************************************************************************)
(* C8.  frameCount stays within 0..FRAMES_MAX.  A call of a closure with   *)
(* the number of arguments of its arity pushes no frame and raises "Stack  *)
(* overflow." when FRAMES_MAX frames are active, and pushes the frame of   *)
(* the closure when fewer are.                                             *)
(***************************************************************************)
\* OP_CALL of a closure with as many arguments as its arity.
MatchingCallStep ==
    /\ Running
    /\ Fetch.op = "OP_CALL"
    /\ vm'.result # "UNDEFINED"
    /\ IS_OBJ_TYPE(vm, peek(vm, Fetch.a), "closure")
    /\ liveClosure(vm, AS_OBJ(peek(vm, Fetch.a)))
    /\ vm.heap[vm.heap[AS_OBJ(peek(vm, Fetch.a))].function].arity = Fetch.a

CallWithinFrames ==
    [][MatchingCallStep =>
         IF frameCount(vm) = FRAMES_MAX
         THEN /\ vm'.result = "RUNTIME_ERROR"
              /\ vm'.error = "Stack overflow."
              /\ frameCount(vm') = 0
         ELSE /\ vm'.result = "RUNNING"
              /\ frameCount(vm') = frameCount(vm) + 1
              /\ frame(vm').closure = AS_OBJ(peek(vm, Fetch.a))
              /\ frame(vm').ip = 1
              /\ frame(vm').slots.index = vm.stackCount - Fetch.a - 1]_vars

SetGlobalStep ==
    /\ Running
    /\ Fetch.op = "OP_SET_GLOBAL"
    /\ hasString(vm, Fetch.a)
    /\ vm'.result # "UNDEFINED"

Global(m, name) == vmTableGet(m, <<"globals", NULL>>, name)

\* Every global of m1 but name has its value in m2.
OthersKept(m1, m2, name) ==
    \A k \in tableKeys(m1.globals) \ {name} : Global(m2, k) = Global(m1, k)

SetGlobalOf(name) ==
    IF ~Global(vm, name).found
    THEN /\ vm'.result = "RUNTIME_ERROR"
         /\ vm'.error = "Undefined variable"
         /\ ~Global(vm', name).found
         /\ OP_GET_GLOBAL(vm, Fetch.a).error = "Undefined variable"
         /\ OthersKept(vm, vm', name)
         /\ tableKeys(vm'.globals) = tableKeys(vm.globals)
    ELSE /\ vm'.result = "RUNNING"
         /\ Global(vm', name) = [found |-> TRUE, value |-> peek(vm, 0)]
         /\ OthersKept(vm, vm', name)
         /\ tableKeys(vm'.globals) = tableKeys(vm.globals)
         /\ vm'.stackCount = vm.stackCount
         /\ peek(vm', 0) = peek(vm, 0)

SetGlobalAssigns ==
    [][SetGlobalStep => SetGlobalOf(READ_STRING(vm, Fetch.a))]_vars

\* The error of an assignment to an undefined name has been raised (only
\* OP_SET_GLOBAL deletes from the globals) in a VM with a global beside
\* the natives.
UndefinedAssignmentRaised ==
    /\ vm.result = "RUNTIME_ERROR"
    /\ vm.error = "Undefined variable"
    /\ \E i \in 1..vm.globals.capacity : vm.globals.entries[i] = Tombstone
    /\ Cardinality(tableKeys(vm.globals)) > 2

(***************************************************************************)
(* C10.  The hash table refines a map: after any sequence of tableSet and  *)
(* tableDelete, tombstones and resizing included, tableGet of a key        *)
(* succeeds exactly when the latest operation on the key was a set, and    *)
(* yields the value of that set; tableSet returns true exactly when the    *)
(* key was absent, and tableDelete exactly when it was present.            *)
(***************************************************************************)
TableRefinesMap ==
    /\ \A k \in Keys :
          tableGet(KeyHash, table, k) =
              [found |-> amap[k].bound, value |-> amap[k].value]
    /\ last.ret = last.expected

\* The table has been resized twice and holds a key whose probe starts at a
\* tombstone.
FoundPastTombstone ==
    /\ table.capacity = 16
    /\ \E k \in Keys : amap[k].bound /\ startsAtTombstone(table, KeyHash[k])

(***************************************************************************)
(* C11.  After the code compiled for `class B < A { ... }` has run, every  *)
(* method of A's method table is in B's method table (with A's closure,    *)
(* unless the body of B defines the name), so that a method defined only   *)
(* in A can be invoked on an instance of B.  Stated of the script          *)
(* `1; class A { m() {} } class B < A {}` when it returns: B has every     *)
(* method A has.                                                           *)
(***************************************************************************)
\* The class the global variable of this name holds, NULL if none.
GlobalClass(m, chars) ==
    LET name == tableFindString(m.heap, m.strings, chars, hashString(chars)) IN
    IF name = NULL \/ ~Global(m, name).found
       \/ ~IS_OBJ_TYPE(m, Global(m, name).value, "class")
    THEN NULL
    ELSE AS_OBJ(Global(m, name).value)

\* The script of InheritProgram returns.
InheritedStep ==
    /\ Running
    /\ Fetch.op = "OP_RETURN"
    /\ frameCount(vm) = 1
    /\ frameFunction(vm).chunk = InheritProgram.script
    /\ vm'.result = "OK"

SubclassHasMethods ==
    [][InheritedStep =>
         LET A == GlobalClass(vm', <<65>>)
             B == GlobalClass(vm', <<66>>)
         IN  /\ A # NULL
             /\ B # NULL
             /\ \A name \in tableKeys(vm'.heap[A].methods) :
                  vmTableGet(vm', <<"methods", B>>, name)
                      = vmTableGet(vm', <<"methods", A>>, name)]_vars

(***************************************************************************)
(* C12.  Calling a class puts a new instance of that class in the callee   *)
(* slot.  When the class has a cached initializer the call pushes the      *)
(* frame of the initializer with argc arguments, slot 0 of the frame being *)
(* the instance, and the initializer returns the instance of its slot 0;   *)
(* when it has none the call succeeds for argc = 0 only and raises a       *)
(* runtime error otherwise.                                                *)
(***************************************************************************)
\* OP_CALL of a class.
ClassCallStep ==
    /\ Running
    /\ Fetch.op = "OP_CALL"
    /\ liveValue(vm, peek(vm, Fetch.a))
    /\ IS_OBJ_TYPE(vm, peek(vm, Fetch.a), "class")

\* The slot holds an instance of the class, without fields.
NewInstanceAt(m, index, klass) ==
    /\ IS_OBJ_TYPE(m, m.stack[index + 1], "instance")
    /\ m.heap[AS_OBJ(m.stack[index + 1])].klass = klass
    /\ m.heap[AS_OBJ(m.stack[index + 1])].fields = initTable

\* OP_RETURN of a frame whose closure is the initializer of a class.
InitializerReturnStep ==
    /\ Running
    /\ Fetch.op = "OP_RETURN"
    /\ \E a \in Addr : /\ isObjType(vm.heap, a, "class")
                       /\ vm.heap[a].initializer = OBJ_VAL(frame(vm).closure)

ClassCallConstructs ==
    /\ [][ClassCallStep =>
            LET klass       == AS_OBJ(peek(vm, Fetch.a))
                callee      == vm.stackCount - Fetch.a - 1
                initializer == vm.heap[klass].initializer
            IN  IF IS_NIL(initializer) /\ Fetch.a # 0
                THEN vm'.result = "RUNTIME_ERROR"
                ELSE /\ vm'.result = "RUNNING"
                     /\ vm'.stackCount = vm.stackCount
                     /\ NewInstanceAt(vm', callee, klass)
                     /\ IF IS_NIL(initializer)
                        THEN frameCount(vm') = frameCount(vm)
                        ELSE /\ frameCount(vm') = frameCount(vm) + 1
                             /\ OBJ_VAL(frame(vm').closure) = initializer
                             /\ frame(vm').slots.index = callee]_vars
    /\ [][InitializerReturnStep =>
            /\ vm'.result \in {"RUNNING", "OK"}
            /\ vm'.result = "RUNNING" =>
                 peek(vm', 0) = vm.stack[frame(vm).slots.index + 1]]_vars

(***************************************************************************)
(* C13.  For an instance receiver, OP_INVOKE name argc leaves the frames,  *)
(* the stack contents and the error outcome that OP_GET_PROPERTY name      *)
(* followed by OP_CALL argc leaves (the arguments being pushed between     *)
(* the two), and in both a field of that name is called in preference to   *)
(* a method of the class.                                                  *)
(***************************************************************************)
\* OP_INVOKE on an instance.
InvokeStep ==
    /\ Running
    /\ Fetch.op = "OP_INVOKE"
    /\ liveValue(vm, peek(vm, Fetch.uv[1]))
    /\ IS_OBJ_TYPE(vm, peek(vm, Fetch.uv[1]), "instance")

RECURSIVE pushAll(_, _, _)
pushAll(m, values, i) ==
    IF i > Len(values) THEN m ELSE pushAll(push(m, values[i]), values, i + 1)

\* OP_CALL once OP_GET_PROPERTY has left m1 and the arguments are pushed.
thenCall(m1, args, argCount) ==
    IF m1.ub \/ ~m1.fits \/ m1.result # "RUNNING" THEN m1
    ELSE OP_CALL(pushAll(m1, args, 1), argCount)

\* What OP_GET_PROPERTY name, the arguments, OP_CALL argc leave from the
\* state in which OP_INVOKE name argc is executed.
GetPropertyThenCall(m, k, argCount) ==
    thenCall(OP_GET_PROPERTY([m EXCEPT !.stackCount = @ - argCount], k),
             SubSeq(m.stack, m.stackCount - argCount + 1, m.stackCount),
             argCount)

\* The state left is m2 as to frames, stack and error outcome.
SameOutcome(m1, m2) ==
    /\ m1.result # "UNDEFINED"
    /\ ~m2.ub
    /\ m1.result = m2.result
    /\ m1.frames = m2.frames
    /\ m1.stackCount = m2.stackCount
    /\ SubSeq(m1.stack, 1, m1.stackCount) = SubSeq(m2.stack, 1, m2.stackCount)

InvokeIsGetPropertyCall ==
    [][InvokeStep =>
         LET receiver == AS_OBJ(peek(vm, Fetch.uv[1]))
             name     == READ_STRING(vm, Fetch.a)
             field    == vmTableGet(vm, <<"fields", receiver>>, name)
             m2       == GetPropertyThenCall(Read(FALSE), Fetch.a, Fetch.uv[1])
         IN  /\ m2.fits => SameOutcome(vm', m2)
             /\ (field.found /\ IS_OBJ_TYPE(vm, field.value, "closure")) =>
                  /\ vm'.result = "RUNNING"
                  /\ OBJ_VAL(frame(vm').closure) = field.value]_vars

(***************************************************************************)
(* C18.  Executing a division or a modulus whose right operand is the      *)
(* number zero ends the run with a runtime error, the stacks reset, and    *)
(* pushes no value.                                                        *)
(***************************************************************************)
\* OP_DIVIDE or OP_MODULUS with two numbers on the stack, the right one 0.
ZeroDivisorStep ==
    /\ Running
    /\ Fetch.op \in {"OP_DIVIDE", "OP_MODULUS"}
    /\ IS_NUMBER(peek(vm, 0))
    /\ IS_NUMBER(peek(vm, 1))
    /\ peek(vm, 0).v = 0

ZeroDivisorRaises ==
    [][ZeroDivisorStep =>
         /\ vm'.result = "RUNTIME_ERROR"
         /\ vm'.stackCount = 0
         /\ frameCount(vm') = 0]_vars

(***************************************************************************)
(* C15.  After any sequence of writeChunk(byte, line), whatever the order  *)
(* of the line numbers, getLine(offset) returns for every offset below the *)
(* byte count, and returns the line passed to the write of that byte.      *)
(***************************************************************************)
LinesRoundTrip ==
    /\ chunk.count = Len(written)
    /\ \A offset \in 0..(chunk.count - 1) :
         getLine(chunk, offset) = [returns |-> TRUE, line |-> written[offset + 1]]

\* Lines that go down and come back, over several runs.
LinesRepeatOutOfOrder ==
    /\ written = <<2, 2, 1, 3, 3, 2>>
    /\ chunk.lineCount = 4

(***************************************************************************)
(* C17.  On a runtime error the stack trace lists the active frames, the   *)
(* innermost first, and the line printed for a frame is the line recorded  *)
(* for the instruction the frame was executing: getLine at ip - 1 in the   *)
(* chunk of the frame's function.                                          *)
(***************************************************************************)
\* The frames when runtimeError is called by the instruction being run.
FramesAtError == Read(FALSE).frames

TraceListsLines ==
    [][RuntimeErrorStep =>
         /\ Len(vm'.trace) = frameCount(vm)
         /\ \A i \in 1..frameCount(vm) :
              LET f        == FramesAtError[frameCount(vm) + 1 - i]
                  function == vm.heap[vm.heap[f.closure].function]
                  recorded == getLine(chunkOf(vm, function.chunk),
                                      offsetOf(function.chunk, f.ip) - 1)
              IN  /\ vm'.trace[i].name = function.name
                  /\ recorded.returns
                  /\ vm'.trace[i].line.determined
                  /\ vm'.trace[i].line.value = recorded.line]_vars

(***************************************************************************)
(* C14.  A function whose chunk needs up to 256 constants loads them all   *)
(* with OP_CONSTANT; a 257th constant of the same chunk is loaded by an    *)
(* OP_CONSTANT_LONG, and the compilation succeeds.                         *)
(***************************************************************************)
\* The byte at an offset of the chunk of the unit.
CodeAt(offset) == vm.unit.chunk.code[offset + 1]

ConstantsLoaded ==
    /\ Len(vm.unit.loads) > 0 => vm.result # "COMPILE_ERROR"
    /\ \A i \in 1..Len(vm.unit.loads) :
         LET load == vm.unit.loads[i]
         IN  IF load.constant <= UINT8_MAX
             THEN /\ CodeAt(load.at) = Byte("OP_CONSTANT")
                  /\ CodeAt(load.at + 1) = load.constant
             ELSE /\ CodeAt(load.at) = Byte("OP_CONSTANT_LONG")
                  /\ ~vm.unit.hadError

(***************************************************************************)
(* C16.  Whenever compile returns a function, the operand of every         *)
(* OP_JUMP, OP_JUMP_IF_FALSE and OP_LOOP in it is the true distance, at    *)
(* most 65535, and the VM lands on the intended target: the offset of the  *)
(* chunk at patchJump time, or loopStart for OP_LOOP.  If a distance is    *)
(* above 65535 an error is recorded and compile returns no function.       *)
(***************************************************************************)
Jumped == {vm.unit.jumps[i] : i \in 1..Len(vm.unit.jumps)}

\* The distance from the end of the operand to the target, and the operand.
Distance(j) ==
    IF j.op = "OP_LOOP" THEN j.at + 2 - j.target ELSE j.target - (j.at + 2)

Operand(j) == CodeAt(j.at) * 256 + CodeAt(j.at + 1)

FunctionReturned == vm.result \in {"RUNNING", "OK", "RUNTIME_ERROR"}

\* No function is returned once an error is recorded; as long as none is,
\* every jump patched so far holds its distance.
OperandsAreDistances ==
    /\ FunctionReturned => ~vm.unit.hadError
    /\ ~vm.unit.hadError =>
         \A j \in Jumped : Distance(j) <= UINT16_MAX /\ Operand(j) = Distance(j)
    /\ \A j \in Jumped :
         Distance(j) > UINT16_MAX =>
           /\ vm.unit.hadError
           /\ vm.unit.error \in {"Too much code to jump over.",
                                 "Loop body too large."}
           /\ vm.result \in {"COMPILING", "COMPILE_ERROR"}

\* The VM is at a jump of the unit, and takes it.
JumpStep ==
    /\ Running
    /\ frameFunction(vm).chunk = 0
    /\ Fetch.op \in Jumps
    /\ Fetch.op = "OP_JUMP_IF_FALSE" => isFalsey(peek(vm, 0))

\* The jump whose operand is at an offset.
JumpAt(offset) == CHOOSE j \in Jumped : j.at = offset

JumpLands ==
    [][JumpStep =>
         /\ \E j \in Jumped : j.at = frame(vm).ip
         /\ frame(vm').ip - 1 = JumpAt(frame(vm).ip).target]_vars

JumpsReachTargets == []OperandsAreDistances /\ JumpLands

\* An OP_LOOP has been run: the VM is back at its loopStart, and the
\* condition of the loop, true at the first passage, is now false.
LoopTaken ==
    /\ Running
    /\ \E j \in Jumped :
         /\ j.op = "OP_LOOP"
         /\ Operand(j) = Distance(j)
         /\ frame(vm).ip - 1 = j.target
    /\ isFalsey(vm.stack[2])

(***************************************************************************)
(* C19.  continue targets the innermost enclosing loop, a for or a while:  *)
(* inside a while body it compiles without error and its OP_LOOP goes to   *)
(* the start of that while loop, where the condition is evaluated again,   *)
(* also when the while loop is itself inside a for loop.                   *)
(***************************************************************************)
Continued == {vm.unit.continues[i] : i \in 1..Len(vm.unit.continues)}

\* Where the OP_LOOP of a continue goes.
ContinueTarget(k) == k.at + 2 - (CodeAt(k.at) * 256 + CodeAt(k.at + 1))

ContinueTargetsInnermost ==
    \A k \in Continued :
       k.loop.kind # "none" => k.clean /\ ContinueTarget(k) = k.loop.next

(***************************************************************************)
(* C20.  In a for loop with an increment clause, continue transfers        *)
(* control to the increment clause, which runs before the condition is     *)
(* checked again; at the target of the continue the stack is as high as at *)
(* the start of the loop, one OP_POP being emitted for each local declared *)
(* above the scope depth of the loop.                                      *)
(***************************************************************************)
\* The continues whose innermost loop is a for loop with an increment.
ForContinued ==
    {k \in Continued : k.loop.kind = "for" /\ k.loop.next # k.loop.start}

\* The first jump emitted from the increment clause on.
AfterIncrement(k) ==
    CHOOSE j \in Jumped :
       /\ j.at > k.loop.next
       /\ \A other \in Jumped : other.at > k.loop.next => j.at <= other.at

\* The height of the stack of the frame with the locals of the loop only.
LoopHeight(k) == frame(vm).slots.index + k.loop.locals

IncrementIsTarget ==
    \A k \in ForContinued :
       /\ ContinueTarget(k) = k.loop.next
       /\ AfterIncrement(k).op = "OP_LOOP"
       /\ AfterIncrement(k).target = k.loop.start
       /\ (Running /\ frame(vm).ip - 1 = k.loop.start) =>
            vm.stackCount = LoopHeight(k)

\* The VM is at the OP_LOOP of such a continue.
ContinueStep ==
    /\ Running
    /\ frameFunction(vm).chunk = 0
    /\ Fetch.op = "OP_LOOP"
    /\ \E k \in ForContinued : k.at = frame(vm).ip

ContinueOf(offset) == CHOOSE k \in ForContinued : k.at = offset

ContinueLands ==
    [][ContinueStep =>
         /\ frame(vm').ip - 1 = ContinueOf(frame(vm).ip).loop.next
         /\ vm'.stackCount = LoopHeight(ContinueOf(frame(vm).ip))]_vars

ContinueRunsIncrement == []IncrementIsTarget /\ ContinueLands

\* The continue of a for loop whose body has declared a local has been run:
\* the VM is at the increment clause, which nothing but the continue reaches.
ContinuedToIncrement ==
    /\ Running
    /\ \E k \in ForContinued :
         /\ frame(vm).ip - 1 = k.loop.next
         /\ Len(vm.unit.constants) = 3
(***************************************************************************)
(* C21.  An expression  c ? a : b  is accepted by the parser, the '?'      *)
(* token having an infix rule at Conditional precedence, and leaves        *)
(* exactly one value on the stack: the value of a when c is truthy, the    *)
(* value of b otherwise.                                                   *)
(***************************************************************************)
Conditionals ==
    {vm.unit.conditionals[i] : i \in 1..Len(vm.unit.conditionals)}

\* The value of a literal.
ValueOf(e) ==
    CASE e.x = "nil"    -> NIL_VAL
      [] e.x = "true"   -> BOOL_VAL(TRUE)
      [] e.x = "false"  -> BOOL_VAL(FALSE)
      [] e.x = "number" -> NUMBER_VAL(e.n)

ConditionalSelects ==
    \A q \in Conditionals :
       /\ getRule("TOKEN_QUESTION").infix = "conditional"
       /\ getRule("TOKEN_QUESTION").precedence = PREC("PREC_CONDITIONAL")
       /\ q.accepted
       /\ ~vm.unit.hadError
       /\ (Running /\ frameFunction(vm).chunk = 0 /\ frame(vm).ip - 1 = q.end) =>
            /\ vm.stackCount = frame(vm).slots.index + q.height + 1
            /\ peek(vm, 0) = IF isFalsey(ValueOf(q.e.c)) THEN ValueOf(q.e.b)
                             ELSE ValueOf(q.e.a)
(***************************************************************************)
(* C22.  deleteField(instance, name) returns nil in every case; called     *)
(* with exactly two arguments, an instance and a string, it removes that   *)
(* field only, every other field of that instance keeping its value and    *)
(* staying retrievable; on misuse (another number of arguments, a first    *)
(* argument that is no instance, a second that is no string) the fields of *)
(* no instance change.                                                     *)
(***************************************************************************)
\* The VM is at an OP_CALL whose callee is the native deleteField.
DeleteFieldStep ==
    /\ Running
    /\ Fetch.op = "OP_CALL"
    /\ IS_OBJ_TYPE(vm, peek(vm, Fetch.a), "native")
    /\ vm.heap[AS_OBJ(peek(vm, Fetch.a))].function = "deleteField"

ObjectsOf(m, type) == {a \in Addr : m.heap[a].type = type}

\* What tableGet finds for a name in the fields of an instance.
Field(m, instance, name) == vmTableGet(m, <<"fields", instance>>, name)

\* The call has two arguments, an instance and a string.
ProperUse ==
    /\ Fetch.a = 2
    /\ IS_OBJ_TYPE(vm, peek(vm, 1), "instance")
    /\ IS_OBJ_TYPE(vm, peek(vm, 0), "string")

DeleteFieldRemoves ==
    [][DeleteFieldStep =>
         /\ vm'.result = "RUNNING"
         /\ vm'.stackCount = vm.stackCount - Fetch.a
         /\ peek(vm', 0) = NIL_VAL
         /\ ObjectsOf(vm', "instance") = ObjectsOf(vm, "instance")
         /\ \A instance \in ObjectsOf(vm, "instance"),
               name \in ObjectsOf(vm, "string") :
              Field(vm', instance, name) =
                IF /\ ProperUse
                   /\ instance = AS_OBJ(peek(vm, 1))
                   /\ name = AS_OBJ(peek(vm, 0))
                THEN [found |-> FALSE, value |-> NIL_VAL]
                ELSE Field(vm, instance, name)]_vars

\* deleteField has just returned, and an instance has one field left beside
\* the tombstone of the one deleted.
FieldDeletedBesideAnother ==
    /\ Running
    /\ frame(vm).ip > 1
    /\ Chunks[frameFunction(vm).chunk][frame(vm).ip - 1].op = "OP_CALL"
    /\ peek(vm, 0) = NIL_VAL
    /\ \E instance \in ObjectsOf(vm, "instance") :
         /\ \E i \in 1..vm.heap[instance].fields.capacity :
              vm.heap[instance].fields.entries[i] = Tombstone
         /\ \E name \in ObjectsOf(vm, "string") :
              Field(vm, instance, name) = [found |-> TRUE, value |-> NUMBER_VAL(2)]
(***************************************************************************)
(* C23.  The interned "init" string held in vm.initString is a root of the *)
(* collector: no collection, one triggered by the allocations of the       *)
(* native registration of initVM or by any later allocation, frees it or   *)
(* removes it from the intern table, so that defineMethod compares the     *)
(* name of a method with a live object.                                    *)
(***************************************************************************)
InitChars == <<105, 110, 105, 116>>

InitStringRooted ==
    /\ isObjType(vm.heap, vm.initString, "string")
    /\ vm.heap[vm.initString].chars = InitChars
    /\ tableFindString(vm.heap, vm.strings, InitChars, hashString(InitChars))
         = vm.initString
(***************************************************************************)
(* C24.  The intern table is weak but never dangling: markRoots does not   *)
(* mark the keys of vm.strings, and a collection removes from vm.strings   *)
(* exactly the keys the tracing left unmarked before the sweep frees them, *)
(* so after a collection (and in every state) every key of vm.strings is   *)
(* a string object that is still allocated, with its characters.           *)
(***************************************************************************)
\* The keys of the table of the collected machine c are the keys of m that
\* the marking g reached, and each is an allocated string of c.
KeysSurvive(m, g, c) ==
    /\ tableKeys(c.strings) = {k \in tableKeys(m.strings) : g.heap[k].isMarked}
    /\ \A k \in tableKeys(c.strings) :
          /\ k \in Allocated(c)
          /\ c.heap[k].type = "string"
          /\ c.heap[k].chars = m.heap[k].chars
    /\ \A k \in tableKeys(m.strings) \ tableKeys(c.strings) :
          k \notin Allocated(c)

\* markRoots marks no key of vm.strings that is not a root for another
\* reason.
NotARoot(m, r) ==
    \A k \in tableKeys(m.strings) : r.heap[k].isMarked => k \in Roots(m)

InternTableWeak ==
    vm.result # "UNDEFINED" =>
        /\ \A k \in tableKeys(vm.strings) :
              k \in Allocated(vm) /\ vm.heap[k].type = "string"
        /\ NotARoot(vm, markRoots(vm))
        /\ KeysSurvive(vm, traceReferences(markRoots(vm)), collectGarbage(vm))

\* A state whose collection removes one key of vm.strings and keeps another
\* that is not a root.
CollectionDropsKey ==
    /\ Running
    /\ \E k \in tableKeys(vm.strings) :
          k \notin tableKeys(collectGarbage(vm).strings)
    /\ \E k \in tableKeys(collectGarbage(vm).strings) : k \notin Roots(vm)
(***************************************************************************)
(* C25.  While the compiler adds a string or function object to a          *)
(* constant pool (identifierConstant, string(), function() through         *)
(* makeConstant and addConstant) the object is reachable from a root       *)
(* across the allocation that grows the pool: after the addition the       *)
(* object is still allocated, whatever collection the growth ran.          *)
(***************************************************************************)
PoolPrograms ==
    {StringFirstProgram, GlobalFirstProgram, NinthFunctionProgram,
     NinthStringProgram, GlobalInFunctionProgram, LiteralProgram, ArityProgram,
     ConcatProgram}

NextPool ==
    \/ \E prog \in PoolPrograms : Interpret(prog)
    \/ Constant
    \/ Nil
    \/ Pop
    \/ GetGlobal
    \/ DefineGlobal
    \/ Add
    \/ Call
    \/ Closure
    \/ Return

SpecPool == Init /\ [][NextPool]_vars

\* The compiler of prog after its first n events.
compilerAfter(m, prog, n) ==
    compileFrom([m  |-> initCompiler(m, ScriptEvent(prog.script)),
                 sc |-> [count |-> 0, capacity |-> 0, entries |-> <<>>]],
                SubSeq(prog.events, 1, n), 1)

\* The object the event ev adds to a constant pool (NULL: none).
added(cs, ev) ==
    CASE ev.e = "str"   -> copyString(cs.m, ev.s).a
      [] ev.e = "ident" -> LET r == copyString(cs.m, ev.s) IN
                           IF scFind(cs.sc, r.a) # {} THEN NULL ELSE r.a
      [] ev.e = "end"   -> Head(cs.m.current)
      [] OTHER          -> NULL

PoolKeeps(cs, ev, a, after) ==
    a # NULL => a \in Allocated(after) /\ ~after.ub

ConstantsKeptAcrossGrowth ==
    vm.result \notin {"RUNNING", "COMPILING", "UNDEFINED"} =>
        \A prog \in PoolPrograms : \A i \in 1..Len(prog.events) :
            LET cs == compilerAfter(vm, prog, i - 1) IN
            (~cs.m.ub /\ cs.m.fits) =>
                PoolKeeps(cs, prog.events[i], added(cs, prog.events[i]),
                          compileEvent(cs, prog.events[i]).m)
(***************************************************************************)
(* C26.  In the allocating operations of the VM (concatenate,              *)
(* defineMethod, bindMethod, the instantiation of a class) every operand   *)
(* that is used after the allocation is an allocated object of the type    *)
(* it is used as, and is on the value stack while the allocation happens.  *)
(***************************************************************************)
\* The method bindMethod finds for the property k of the instance on top of
\* the stack ({}: the property is a field, or no method has the name).
boundOperand(m, k) ==
    LET instance == AS_OBJ(peek(m, 0))
        name     == READ_STRING(m, k)
        method   == vmTableGet(m, <<"methods", m.heap[instance].klass>>, name)
    IN  IF vmTableGet(m, <<"fields", instance>>, name).found
           \/ ~isObjType(m.heap, m.heap[instance].klass, "class")
           \/ ~method.found
        THEN {}
        ELSE {<<peek(m, 0), "instance">>, <<method.value, "closure">>}

\* The values that the allocating operation of the instruction i, about to
\* run on m, uses after its allocation, each with the type of object it is
\* used as: a and b of concatenate (AS_STRING), method and klass of
\* defineMethod (AS_CLASS), the receiver and the method of bindMethod
\* (AS_CLOSURE), the class of callValue (AS_CLASS).
allocationOperands(m, i) ==
    CASE i.op = "OP_ADD" /\ IS_OBJ_TYPE(m, peek(m, 0), "string")
                         /\ IS_OBJ_TYPE(m, peek(m, 1), "string")
           -> {<<peek(m, 0), "string">>, <<peek(m, 1), "string">>}
      [] i.op = "OP_METHOD"
           -> {<<peek(m, 0), "closure">>, <<peek(m, 1), "class">>}
      [] i.op = "OP_GET_PROPERTY" /\ IS_OBJ_TYPE(m, peek(m, 0), "instance")
                                  /\ hasString(m, i.a)
           -> boundOperand(m, i.a)
      [] i.op = "OP_CALL" /\ IS_OBJ_TYPE(m, peek(m, i.a), "class")
           -> {<<peek(m, i.a), "class">>}
      [] OTHER -> {}

OperandsOnStack ==
    Running =>
        \A o \in allocationOperands(vm, Fetch) :
            /\ IS_OBJ_TYPE(vm, o[1], o[2])
            /\ AS_OBJ(o[1]) \in Allocated(vm)
            /\ \E slot \in 1..vm.stackCount : vm.stack[slot] = o[1]
(***************************************************************************)
(* C27.  At every allocation made during compilation, at any nesting       *)
(* depth, the function under construction of the current compiler and of   *)
(* every enclosing compiler is a root: it is marked by markRoots and is    *)
(* still allocated after the collections run so far.  Once compile has     *)
(* returned, the chain of compilers is empty, so no state between the      *)
(* instructions has a compiler root.                                       *)
(***************************************************************************)
\* The compilers of cs are those of the chunks open, each with its function
\* allocated and marked by r, the roots marked for the next allocation.
CompilersRooted(cs, open, r) ==
    /\ Len(cs.m.current) = Len(open)
    /\ \A i \in 1..Len(open) :
          /\ isObjType(cs.m.heap, cs.m.current[i], "function")
          /\ cs.m.current[i] \in Allocated(cs.m)
          /\ cs.m.heap[cs.m.current[i]].chunk = open[i]
          /\ r.heap[cs.m.current[i]].isMarked

\* The compilers are rooted before each of the events from i on, and after
\* the last; open is the chunks of the functions under construction.  (A
\* heap that is full, or undefined behaviour so far, ends the claim.)
RECURSIVE rootedFrom(_, _, _, _)
rootedFrom(cs, events, i, open) ==
    (cs.m.fits /\ ~cs.m.ub) =>
    /\ CompilersRooted(cs, open, markRoots(cs.m))
    /\ i <= Len(events) =>
          rootedFrom(compileEvent(cs, events[i]), events, i + 1,
                     CASE events[i].e = "fun" -> <<events[i].k>> \o open
                       [] events[i].e = "end" -> Tail(open)
                       [] OTHER               -> open)

CompilerChainRooted ==
    /\ vm.current = <<>>
    /\ (vm.result \notin {"RUNNING", "COMPILING", "UNDEFINED"}
          /\ runs < MaxRuns) =>
          \A prog \in Programs :
             /\ rootedFrom(compilerAfter(vm, prog, 0), prog.events, 1,
                           <<prog.script>>)
             /\ compile(vm, prog).m.fits => compile(vm, prog).m.current = <<>>

\* The script running was compiled with a function nested in a function:
\* a constant of the script is a function that has a function among its own
\* constants, and both are allocated.
NestedFunctionCompiled ==
    /\ Running
    /\ Len(vm.frames) = 1
    /\ vm.current = <<>>
    /\ \E i \in 1..Len(frameFunction(vm).constants) :
          LET f == frameFunction(vm).constants[i] IN
          /\ IS_OBJ_TYPE(vm, f, "function")
          /\ \E j \in 1..Len(vm.heap[AS_OBJ(f)].constants) :
                IS_OBJ_TYPE(vm, vm.heap[AS_OBJ(f)].constants[j], "function")
(***************************************************************************)
(* C28.  For every identifier and every function being compiled, top       *)
(* level or nested, the index identifierConstant returns designates an     *)
(* entry of the constant pool of the current function, that entry holds    *)
(* the string of the identifier, and no other entry of the pool holds it.  *)
(***************************************************************************)
\* The index identifierConstant returns once copyString has returned r:
\* the one stringConstants holds for the string, else that of the entry
\* makeConstant adds.
identifierResult(cs, r) ==
    IF scFind(cs.sc, r.a) # {}
    THEN cs.sc.entries[CHOOSE i \in scFind(cs.sc, r.a) : TRUE].index
    ELSE Len(r.m.heap[Head(r.m.current)].constants)

\* index designates the one entry of the pool that holds the string a.
DesignatesName(pool, index, a) ==
    /\ index < Len(pool)
    /\ pool[index + 1] = OBJ_VAL(a)
    /\ \A j \in 1..Len(pool) : pool[j] = OBJ_VAL(a) => j = index + 1

IdentifierInOwnPool(cs, ev, r, after) ==
    (after.fits /\ ~after.ub) =>
        /\ isObjType(after.heap, r.a, "string")
        /\ after.heap[r.a].chars = ev.s
        /\ DesignatesName(after.heap[Head(after.current)].constants,
                          identifierResult(cs, r), r.a)

IdentifierConstantsOwn ==
    (vm.result \notin {"RUNNING", "COMPILING", "UNDEFINED"} /\ runs < MaxRuns) =>
        \A prog \in PoolPrograms : \A i \in 1..Len(prog.events) :
            LET cs == compilerAfter(vm, prog, i - 1) IN
            (prog.events[i].e = "ident" /\ cs.m.fits /\ ~cs.m.ub) =>
                IdentifierInOwnPool(cs, prog.events[i],
                                    copyString(cs.m, prog.events[i].s),
                                    compileEvent(cs, prog.events[i]).m)
(***************************************************************************)
(* C29.  For every constant index i with 256 <= i < 2^24, the three        *)
(* operand bytes writeConstant emits after OP_CONSTANT_LONG are decoded by *)
(* the VM and by the disassembler to the index i, and the instruction      *)
(* pushes constants[i].                                                    *)
(***************************************************************************)
LongOperandDecodes ==
    last.read =>
        /\ last.constant \in 256..(2 ^ 24 - 1)
        /\ last.debug = last.constant
        /\ last.vm = last.constant
        /\ ~last.ub /\ last.pushed = last.value
(***************************************************************************)
(* C30.  Every opcode the compiler emits has a case in the dispatch loop   *)
(* of the VM that reads exactly the operand bytes the compiler wrote: at   *)
(* the top of the loop the instruction pointer is at an offset where the   *)
(* compiler wrote an opcode, that opcode has a case, and no operand byte   *)
(* is read as an opcode.                                                   *)
(***************************************************************************)
DispatchOnOpcode ==
    last.op # "OP_RETURN" =>
        /\ last.ip \in Boundaries(last.k)
        /\ opcodeOf(chunk.code[last.ip + 1]) \in Cases
(***************************************************************************)
(* C31.  A switch statement leaves the stack as high as it found it,       *)
(* whichever case matches or none, with or without default: the subject    *)
(* is popped once.  The body run is that of the first case equal to the    *)
(* subject, else that of the default.                                      *)
(***************************************************************************)
Switches == {vm.unit.switches[i] : i \in 1..Len(vm.unit.switches)}

\* The arm whose body is to run: the first case equal to the subject, else
\* the default, else 0.
equalCases(st) ==
    {i \in 1..Len(st.arms) :
        /\ st.arms[i].kind = "case"
        /\ valuesEqual(ValueOf(st.e), ValueOf(st.arms[i].e))}

defaults(st) == {i \in 1..Len(st.arms) : st.arms[i].kind = "default"}

least(S) == CHOOSE i \in S : \A j \in S : i <= j

chosenArm(st) ==
    IF equalCases(st) # {} THEN least(equalCases(st))
    ELSE IF defaults(st) # {} THEN least(defaults(st))
    ELSE 0

\* The VM has run the switch statement sw to its end.
AfterSwitch(sw) ==
    Running /\ frameFunction(vm).chunk = 0 /\ frame(vm).ip - 1 = sw.end

\* The body of arm i of the sources stores i in the local declared last
\* before the switch, which holds 0 before it.
BodyRun(sw) == vm.stack[frame(vm).slots.index + sw.height]

SwitchRunsFirstEqual ==
    \A sw \in Switches :
       AfterSwitch(sw) => BodyRun(sw) = NUMBER_VAL(chosenArm(sw.st))

SwitchStackNeutral ==
    \A sw \in Switches :
       /\ sw.clean
       /\ AfterSwitch(sw) =>
            /\ vm.stackCount = frame(vm).slots.index + sw.height
            /\ BodyRun(sw) = NUMBER_VAL(chosenArm(sw.st))
(***************************************************************************)
(* C32.  When push has grown the value stack, the slots of every active    *)
(* CallFrame and the location of every open upvalue point into the block   *)
(* the stack is in now, at the index they had: none is left pointing into  *)
(* the block the stack was in before.  (The natives push nothing, so the   *)
(* argument pointer of a native is used before any growth.)                *)
(***************************************************************************)
StackPointersFollow ==
    Running =>
       /\ \A i \in 1..Len(vm.frames) :
             /\ vm.frames[i].slots.base = vm.stackBase
             /\ vm.frames[i].slots.index < vm.stackCount
       /\ \A a \in Addr :
             IsOpenUpvalue(vm, a) =>
                /\ vm.heap[a].location.base = vm.stackBase
                /\ vm.heap[a].location.index < vm.stackCount
(***************************************************************************)
(* C33.  Closing an upvalue (OP_CLOSE_UPVALUE or OP_RETURN) stores the     *)
(* value its slot holds at that moment in the closed field and redirects   *)
(* the location to that field.  Closures that captured the same variable   *)
(* hold the same upvalue, so each reads after the close the value last     *)
(* written, and a later OP_SET_UPVALUE through one is read by the others.  *)
(***************************************************************************)
UpvaluePrograms == {ShareProgram, EscapeProgram, GrowProgram}

NextUpvalues ==
    \/ \E prog \in UpvaluePrograms : Interpret(prog)
    \/ Constant
    \/ Nil
    \/ Pop
    \/ GetLocal
    \/ SetLocal
    \/ GetGlobal
    \/ DefineGlobal
    \/ SetGlobal
    \/ GetUpvalue
    \/ SetUpvalue
    \/ Call
    \/ Closure
    \/ CloseUpvalue
    \/ Return

SpecUpvalues == Init /\ [][NextUpvalues]_vars

\* The upvalues of the open list.
Listed == LET l == openList(vm.heap, vm.openUpvalues, 0) IN
          {l[i] : i \in 1..Len(l)}

\* The index of the first slot whose upvalues the instruction closes.
CloseStep == Running /\ Fetch.op \in {"OP_CLOSE_UPVALUE", "OP_RETURN"}

lastClosed ==
    IF Fetch.op = "OP_RETURN" THEN frame(vm).slots.index ELSE vm.stackCount - 1

ClosesToSlotValue ==
    [][CloseStep =>
         \A a \in Listed :
            vm.heap[a].location.index >= lastClosed =>
               /\ vm'.heap[a].location = ClosedLocation
               /\ vm'.heap[a].closed = vm.stack[vm.heap[a].location.index + 1]]_vars

\* What a closure reads through the upvalue a.
readThrough(m, a) ==
    IF m.heap[a].location = ClosedLocation THEN m.heap[a].closed
    ELSE m.stack[m.heap[a].location.index + 1]

SetUpvalueStep == Running /\ Fetch.op = "OP_SET_UPVALUE"

\* The upvalue the instruction writes through.
upvalueWritten == vm.heap[frame(vm).closure].upvalues[Fetch.a + 1]

\* The closures holding the upvalue a.
Holders(m, a) ==
    {c \in Addr : /\ m.heap[c].type = "closure"
                  /\ \E i \in 1..Len(m.heap[c].upvalues) : m.heap[c].upvalues[i] = a}

WritesAreShared ==
    [][SetUpvalueStep =>
         \A c \in Holders(vm, upvalueWritten) :
            \A i \in 1..Len(vm.heap[c].upvalues) :
               vm.heap[c].upvalues[i] = upvalueWritten =>
                  readThrough(vm', vm'.heap[c].upvalues[i]) = peek(vm, 0)]_vars

\* Two open upvalues never have the same slot: the closures that capture
\* one variable hold one upvalue.
OneUpvaluePerSlot ==
    \A a, b \in Listed : vm.heap[a].location = vm.heap[b].location => a = b

ClosedUpvaluesShared == ClosesToSlotValue /\ WritesAreShared /\ []OneUpvaluePerSlot
(***************************************************************************)
(* C34.  A call with argc arguments puts the base of the new frame on the  *)
(* callee, argc + 1 below the top.  OP_RETURN with a frame remaining       *)
(* leaves one frame less, the stack as high as before the call minus argc, *)
(* and the return value in the slot that held the callee; OP_RETURN of the *)
(* last frame pops the script closure and run ends with OK.                *)
(***************************************************************************)
ReturnPrograms == {ArityProgram, LocalsProgram, LiteralProgram}

NextReturn ==
    \/ \E prog \in ReturnPrograms : Interpret(prog)
    \/ Constant
    \/ Nil
    \/ Pop
    \/ GetGlobal
    \/ DefineGlobal
    \/ Call
    \/ Closure
    \/ Return

SpecReturn == Init /\ [][NextReturn]_vars

\* An OP_CALL that has pushed a frame.
CalledStep ==
    Running /\ Fetch.op = "OP_CALL" /\ Len(vm'.frames) = Len(vm.frames) + 1

CallSetsBase ==
    [][CalledStep =>
         /\ frame(vm').slots.index = vm.stackCount - Fetch.a - 1
         /\ vm'.stackCount = vm.stackCount]_vars

Returning == Running /\ Fetch.op = "OP_RETURN"

ReturnLeavesResult ==
    [][Returning =>
         IF Len(vm.frames) > 1
         THEN /\ vm'.result = "RUNNING"
              /\ Len(vm'.frames) = Len(vm.frames) - 1
              /\ vm'.stackCount = frame(vm).slots.index + 1
              /\ vm'.stack[frame(vm).slots.index + 1] = peek(vm, 0)
         ELSE /\ vm'.result = "OK"
              /\ vm'.frames = <<>>
              /\ vm'.stackCount = vm.stackCount - 2]_vars

ReturnRestoresCaller == CallSetsBase /\ ReturnLeavesResult
(***************************************************************************)
(* C35.  A table with capacity > 0 has a capacity that is a power of two   *)
(* of at least 8, and its count, the entries with a key plus the           *)
(* tombstones, is at most 0.75 * capacity.  So an entry is empty, and the  *)
(* probes of findEntry and of tableFindString end for every key and from   *)
(* every index, after any deletes and re-inserts.                          *)
(***************************************************************************)
\* The tables of a state: the one of the table specification, and those of
\* the VM and of its classes and instances.
AllTables ==
    {table, vm.globals, vm.strings}
      \union {vm.heap[a].methods : a \in {b \in Addr : vm.heap[b].type = "class"}}
      \union {vm.heap[a].fields : a \in {b \in Addr : vm.heap[b].type = "instance"}}

PowersOfTwo == {8, 16, 32, 64, 128, 256}

\* entry->key == NULL && IS_NIL(entry->value)
isEmptyEntry(entry) == entry.key = NULL /\ IS_NIL(entry.value)

stored(t) == {i \in 1..t.capacity : ~isEmptyEntry(t.entries[i])}

\* The probe that starts at an index comes to an empty entry.
probeEnds(t, index) ==
    \E d \in 0..(t.capacity - 1) :
       isEmptyEntry(t.entries[BitAnd(index + d, t.capacity - 1) + 1])

LoadBounded(t) ==
    t.capacity > 0 =>
       /\ t.capacity \in PowersOfTwo
       /\ Len(t.entries) = t.capacity
       /\ t.count = Cardinality(stored(t))
       /\ 4 * t.count <= 3 * t.capacity
       /\ \A index \in 0..(t.capacity - 1) : probeEnds(t, index)

MaxCode == 17

MaxStack == 9

MaxFrees == 2

\* sizeof(uint8_t), sizeof(int), sizeof(LineStart) (two ints) and
\* sizeof(Value) (a uint64_t under NAN_BOXING).
sizeofByte == 1

sizeofInt == 4

sizeofLineStart == 2 * sizeofInt

sizeofValue == 8

\* The first statement of reallocate: vm.bytesAllocated += newSize - oldSize.
bytesAllocatedAfter(bytes, oldSize, newSize) == bytes + newSize - oldSize

GROW_ARRAY(bytes, size, oldCount, newCount) ==
    bytesAllocatedAfter(bytes, size * oldCount, size * newCount)

FREE_ARRAY(bytes, size, oldCount) ==
    bytesAllocatedAfter(bytes, size * oldCount, 0)

\* The counter after writeChunk: GROW_ARRAY of the code when it grows and of
\* the LineStart array when it grows.
writeChunkBytes(bytes, ch, wr) ==
    LET code == IF ch.capacity < ch.count + 1
                THEN GROW_ARRAY(bytes, sizeofByte, ch.capacity, wr.capacity)
                ELSE bytes
    IN  IF wr.lineCount > ch.lineCount /\ ch.lineCapacity < ch.lineCount + 1
        THEN GROW_ARRAY(code, sizeofLineStart, ch.lineCapacity, wr.lineCapacity)
        ELSE code

\* The counter after writeValueArray.
writeValueArrayBytes(bytes, array) ==
    IF array.capacity < array.count + 1
    THEN GROW_ARRAY(bytes, sizeofValue, array.capacity,
                    GROW_CAPACITY(array.capacity))
    ELSE bytes

\* The counter after freeChunk: the code, then the line table as ints of
\* the code's capacity, then the constants, then, after initChunk has set
\* lineCapacity to 0, the line table as LineStarts.
freeChunkBytes(bytes, ch) ==
    LET code      == FREE_ARRAY(bytes, sizeofByte, ch.capacity)
        lines     == FREE_ARRAY(code, sizeofInt, ch.capacity)
        constants == FREE_ARRAY(lines, sizeofValue, ch.constants.capacity)
    IN  FREE_ARRAY(constants, sizeofLineStart, initChunk.lineCapacity)

\* The counter after push: GROW_ARRAY of the stack when it is full.
pushBytes(bytes, stackCount, stackCapacity) ==
    IF stackCapacity < stackCount + 1
    THEN GROW_ARRAY(bytes, sizeofValue, stackCapacity,
                    GROW_CAPACITY(stackCapacity))
    ELSE bytes

\* resetStack: the first stack block comes from malloc.
firstStackCapacity == 8

InitBytes ==
    /\ vm = initVM /\ runs = 0
    /\ table = initTable /\ amap = NoMap
    /\ last = [bytesAllocated |-> 0, stackCount |-> 0,
               stackCapacity |-> firstStackCapacity, frees |-> 0]
    /\ chunk = poolChunk(0)
    /\ written = <<>>

WriteCode(line) ==
    /\ chunk.count < MaxCode
    /\ chunk.lineCount > 0 => line >= chunk.lines[chunk.lineCount].line
    /\ chunk' = writeChunk(chunk, 0, line)
    /\ last' = [last EXCEPT !.bytesAllocated =
                               writeChunkBytes(@, chunk, chunk')]
    /\ UNCHANGED <<vm, runs, table, amap, written>>

AddConstant(value) ==
    /\ chunk.constants.count < MaxConstants
    /\ chunk' = addConstantTo(chunk, value).chunk
    /\ last' = [last EXCEPT !.bytesAllocated =
                               writeValueArrayBytes(@, chunk.constants)]
    /\ UNCHANGED <<vm, runs, table, amap, written>>

FreeChunk ==
    /\ chunk.capacity > 0
    /\ last.frees < MaxFrees
    /\ chunk' = poolChunk(0)
    /\ last' = [last EXCEPT !.bytesAllocated = freeChunkBytes(@, chunk),
                            !.frees = @ + 1]
    /\ UNCHANGED <<vm, runs, table, amap, written>>

PushValue ==
    /\ last.stackCount < MaxStack
    /\ last' = [last EXCEPT
                  !.bytesAllocated =
                      pushBytes(@, last.stackCount, last.stackCapacity),
                  !.stackCapacity = IF @ < last.stackCount + 1
                                    THEN GROW_CAPACITY(@) ELSE @,
                  !.stackCount = @ + 1]
    /\ UNCHANGED <<vm, runs, table, amap, chunk, written>>

\* The stack part of freeVM: free(vm.stack), then resetStack.
FreeStack ==
    /\ last.stackCount > 0
    /\ last.frees < MaxFrees
    /\ last' = [last EXCEPT !.stackCount = 0,
                            !.stackCapacity = firstStackCapacity,
                            !.frees = @ + 1]
    /\ UNCHANGED <<vm, runs, table, amap, chunk, written>>

NextBytes ==
    \/ \E line \in 1..MaxLine : WriteCode(line)
    \/ \E value \in {NUMBER_VAL(1)} : AddConstant(value)
    \/ FreeChunk
    \/ PushValue
    \/ FreeStack

SpecBytes == InitBytes /\ [][NextBytes]_vars

\* The bytes of the blocks held through reallocate: the three arrays of the
\* chunk, and the stack once push has grown it.
heldBytes ==
      sizeofByte * chunk.capacity
    + sizeofLineStart * chunk.lineCapacity
    + sizeofValue * chunk.constants.capacity
    + (IF last.stackCapacity > firstStackCapacity
       THEN sizeofValue * last.stackCapacity ELSE 0)

\* C36: vm.bytesAllocated is the total size of the blocks held through
\* reallocate and never goes below zero.
BytesAllocatedIsHeld ==
    /\ last.bytesAllocated = heldBytes
    /\ last.bytesAllocated >= 0

\* The counter below zero: a size_t near SIZE_MAX.
BytesUnderflow == last.bytesAllocated < 0

\* A writeChunk keeps the counter equal to the bytes held.
BytesHeldWhileGrowing ==
    [][(\E line \in 1..MaxLine : WriteCode(line))
          /\ last.bytesAllocated = heldBytes
       => last'.bytesAllocated = heldBytes']_vars

(***************************************************************************)
(* The collector step by step, as reallocate calls it.  vm is the VM with  *)
(* its heap and last the control state                                     *)
(*   [pc, depth, ret, gray, grayCapacity, pushed, grew, frees, runs]:      *)
(* pc is "idle" outside reallocate, "roots", "trace", "white", "sweep" and *)
(* "end" inside collectGarbage and "threshold" at the test of nextGC;      *)
(* depth is the number of activations of collectGarbage, ret the places    *)
(* they return to, gray the gray stack, pushed the objects pushed on it    *)
(* in this collection, grew whether the gray stack has grown in it, frees  *)
(* the objects freed in it and runs the collections begun.  The heaps are  *)
(* those of initVM with two strings, a function, two closures and their    *)
(* two closed upvalues, which may hold the closures, and a string nothing  *)
(* refers to.                                                              *)
(***************************************************************************)
MaxCollections == 2

\* The addresses of the objects of the graph: the first ones that initVM
\* leaves free.
GraphObjects == <<5, 6, 7, 8, 9, 10, 11, 12>>

StrS == GraphObjects[1]

StrT == GraphObjects[2]

FunF == GraphObjects[3]

CloC == GraphObjects[4]

CloD == GraphObjects[5]

UpvU == GraphObjects[6]

UpvV == GraphObjects[7]

StrG == GraphObjects[8]

graphString(k) ==
    [type |-> "string", isMarked |-> FALSE, chars |-> KeyChars[k],
     hash |-> KeyHash[k]]

graphFunction(name, constants) ==
    [type |-> "function", isMarked |-> FALSE, arity |-> 0,
     upvalueCount |-> 2, name |-> name, constants |-> constants,
     constCapacity |-> 8, chunk |-> 0]

graphClosure(upvalues) ==
    [type |-> "closure", isMarked |-> FALSE, function |-> FunF,
     upvalues |-> upvalues, upvalueCount |-> 2]

graphUpvalue(closed) ==
    [type |-> "upvalue", isMarked |-> FALSE, location |-> ClosedLocation,
     closed |-> closed, next |-> NULL]

\* The VM m with the graph in its heap, the strings interned and the roots
\* on the stack.
graphVM(m, name, ups, downs, closedU, closedV, roots) ==
    LET hp == [a \in Addr |->
                 CASE a = StrS -> graphString(1)
                   [] a = StrT -> graphString(3)
                   [] a = FunF ->
                        graphFunction(name, <<NUMBER_VAL(1), OBJ_VAL(StrT)>>)
                   [] a = CloC -> graphClosure(ups)
                   [] a = CloD -> graphClosure(downs)
                   [] a = UpvU -> graphUpvalue(closedU)
                   [] a = UpvV -> graphUpvalue(closedV)
                   [] a = StrG -> graphString(6)
                   [] OTHER -> m.heap[a]]
        s1 == tableSet(hashOf(hp), m.strings, StrS, NIL_VAL).table
        s2 == tableSet(hashOf(hp), s1, StrT, NIL_VAL).table
        s3 == tableSet(hashOf(hp), s2, StrG, NIL_VAL).table
    IN  [m EXCEPT
           !.heap = hp,
           !.objects = <<StrG, UpvV, UpvU, CloD, CloC, FunF, StrT, StrS>> \o @,
           !.strings = s3,
           !.stack = roots,
           !.stackCount = Len(roots)]

GraphRoots ==
    { <<>>, <<OBJ_VAL(CloC)>>, <<OBJ_VAL(CloD)>>,
      <<OBJ_VAL(StrS), OBJ_VAL(CloC), OBJ_VAL(CloC)>>,
      <<OBJ_VAL(StrS), OBJ_VAL(StrT), OBJ_VAL(FunF), OBJ_VAL(CloC),
        OBJ_VAL(CloD)>> }

GraphVMs ==
    { graphVM(initVM, name, ups, downs, closedU, closedV, roots) :
        name \in {NULL, StrS},
        ups \in {<<UpvU, UpvU>>, <<UpvU, UpvV>>},
        downs \in {<<UpvV, UpvU>>, <<UpvV, UpvV>>},
        closedU \in {NIL_VAL, OBJ_VAL(CloC), OBJ_VAL(CloD)},
        closedV \in {OBJ_VAL(StrS), OBJ_VAL(CloC), OBJ_VAL(CloD)},
        roots \in GraphRoots }

\* The collection reallocate runs first comes back to the test of nextGC.
idleControl ==
    [pc |-> "idle", depth |-> 0, ret |-> <<>>, gray |-> <<>>,
     grayCapacity |-> 8, pushed |-> <<>>, grew |-> FALSE, frees |-> 0,
     runs |-> 0]

\* A call of collectGarbage that returns to `to`.
collectGarbageCalled(c, to) ==
    [c EXCEPT !.pc = "roots", !.depth = @ + 1, !.ret = <<to>> \o @,
              !.pushed = <<>>, !.grew = FALSE, !.frees = 0, !.runs = @ + 1]

\* The condition under which reallocate collects.
reallocateCollectsOnResize(oldSize, newSize) == newSize # oldSize

reallocateCollects(oldSize, newSize) == newSize > oldSize

\* reallocate(pointer, oldSize, newSize) called at c.pc: the collection of
\* DEBUG_STRESS_GC when the block grows, which returns to the test of
\* nextGC when the call comes from outside the collector.
reallocateCalled(c, oldSize, newSize) ==
    IF reallocateCollects(oldSize, newSize)
    THEN collectGarbageCalled(c, IF c.pc = "idle" THEN "threshold" ELSE c.pc)
    ELSE c

\* markObject's growth of the gray stack for count objects: realloc.
grayStackGrown(c, count) ==
    [c EXCEPT !.grayCapacity = grownTo(@, count),
              !.grew = @ \/ c.grayCapacity < count]

\* The control state once the marking has left g with `kept` of the gray
\* stack as it was.
marked(c, g, kept, to) ==
    grayStackGrown([c EXCEPT !.gray = g.gray,
                             !.pushed = @ \o SubSeq(g.gray, kept + 1, Len(g.gray)),
                             !.pc = to],
                   Len(g.gray))

InitCollect ==
    /\ \A i \in 1..Len(GraphObjects) : initVM.heap[GraphObjects[i]] = FreeObj
    /\ vm \in GraphVMs
    /\ runs = 0
    /\ table = initTable /\ amap = NoMap
    /\ last = idleControl
    /\ chunk = initChunk
    /\ written = <<>>

Sizes == {0, 8, 16}

\* A call of reallocate by the program.
Reallocate(oldSize, newSize) ==
    /\ last.pc = "idle"
    /\ last.runs < MaxCollections
    /\ last' = reallocateCalled(last, oldSize, newSize)
    /\ UNCHANGED <<vm, runs, table, amap, chunk, written>>

\* if (vm.bytesAllocated > vm.nextGC) collectGarbage();
Threshold(above) ==
    /\ last.pc = "threshold"
    /\ last' = IF above /\ last.runs < MaxCollections
               THEN collectGarbageCalled(last, "idle")
               ELSE [last EXCEPT !.pc = "idle"]
    /\ UNCHANGED <<vm, runs, table, amap, chunk, written>>

\* The marking has left g with `kept` of the gray stack as it was.
Marked(g, kept) ==
    /\ vm' = [vm EXCEPT !.heap = g.heap, !.ub = @ \/ g.freed]
    /\ last' = marked(last, g, kept, "trace")
    /\ UNCHANGED <<runs, table, amap, chunk, written>>

MarkRoots ==
    /\ last.pc = "roots"
    /\ Marked(markRoots(vm), 0)

\* One iteration of the loop of traceReferences.
Blacken ==
    /\ last.pc = "trace"
    /\ Len(last.gray) > 0
    /\ Marked(blackenObject([heap |-> vm.heap,
                             gray |-> SubSeq(last.gray, 1, Len(last.gray) - 1),
                             freed |-> FALSE],
                            last.gray[Len(last.gray)]),
              Len(last.gray) - 1)

\* The loop of traceReferences ends.
Traced ==
    /\ last.pc = "trace"
    /\ Len(last.gray) = 0
    /\ last' = [last EXCEPT !.pc = "white"]
    /\ UNCHANGED <<vm, runs, table, amap, chunk, written>>

RemoveWhite ==
    /\ last.pc = "white"
    /\ vm' = [vm EXCEPT !.strings = tableRemoveWhite(vm.heap, vm.strings)]
    /\ last' = [last EXCEPT !.pc = "sweep"]
    /\ UNCHANGED <<runs, table, amap, chunk, written>>

\* sweep: each unmarked object is freed by a reallocate to size 0.
unreached(m) == {a \in Addr : (\E i \in 1..Len(m.objects) : m.objects[i] = a)
                              /\ ~m.heap[a].isMarked}

Sweep ==
    /\ last.pc = "sweep"
    /\ vm' = [vm EXCEPT !.heap = sweptHeap(vm.heap, vm.objects),
                        !.objects = sweptList(vm.heap, vm.objects)]
    /\ last' = IF unreached(vm) = {}
               THEN [last EXCEPT !.pc = "end"]
               ELSE reallocateCalled(
                      [last EXCEPT !.pc = "end",
                                   !.frees = Cardinality(unreached(vm))],
                      8, 0)
    /\ UNCHANGED <<runs, table, amap, chunk, written>>

\* collectGarbage returns.
Collected ==
    /\ last.pc = "end"
    /\ last' = [last EXCEPT !.pc = Head(last.ret), !.ret = Tail(@),
                            !.depth = @ - 1]
    /\ UNCHANGED <<vm, runs, table, amap, chunk, written>>

NextCollect ==
    \/ \E oldSize \in Sizes, newSize \in Sizes : Reallocate(oldSize, newSize)
    \/ \E above \in BOOLEAN : Threshold(above)
    \/ MarkRoots
    \/ Blacken
    \/ Traced
    \/ RemoveWhite
    \/ Sweep
    \/ Collected

SpecCollect == InitCollect /\ [][NextCollect]_vars

\* C37: collectGarbage is never re-entered; no step of a collection begins
\* another one, and a reallocate that shrinks or frees begins none.
Collecting == MarkRoots \/ Blacken \/ Traced \/ RemoveWhite \/ Sweep

CollectNotReentered ==
    /\ [](last.depth <= 1)
    /\ [][Collecting => last'.depth = last.depth /\ last'.runs = last.runs]_vars
    /\ [][\A oldSize \in Sizes, newSize \in Sizes :
            (newSize <= oldSize /\ Reallocate(oldSize, newSize))
               => last' = last]_vars

\* A collection that has grown the gray stack and freed objects has come
\* back.
CollectedWithGrowth ==
    /\ last.pc = "idle"
    /\ last.runs > 0
    /\ last.depth = 0
    /\ last.grew
    /\ last.frees > 0

\* The collector with the loop of traceReferences running on: an iteration
\* that can be taken is taken, and so is the exit of the loop.
SpecMark == SpecCollect /\ WF_vars(Blacken) /\ WF_vars(Traced)

\* No object has been pushed on the gray stack twice in this collection.
PushedOnce ==
    \A i \in 1..Len(last.pushed), j \in 1..Len(last.pushed) :
        i # j => last.pushed[i] # last.pushed[j]

\* After traceReferences the gray stack is empty and every object pushed is
\* marked.
TracedToEmpty ==
    last.pc \in {"white", "sweep"} =>
        /\ Len(last.gray) = 0
        /\ \A i \in 1..Len(last.pushed) : vm.heap[last.pushed[i]].isMarked

\* C38: the mark phase terminates on every object graph: each object is
\* pushed on the gray stack at most once in a collection, and the marking
\* that markRoots has begun reaches the end of traceReferences with the gray
\* stack empty.
MarkPhaseTerminates ==
    /\ []PushedOnce
    /\ []TracedToEmpty
    /\ (last.pc = "trace") ~> (last.pc = "white")

\* The marking of a cycle has ended: a closure holds an upvalue whose closed
\* value is that closure, and both are marked.
CycleTraced ==
    /\ last.pc = "white"
    /\ vm.heap[CloC].isMarked
    /\ vm.heap[UpvU].isMarked
    /\ vm.heap[CloC].upvalues[1] = UpvU
    /\ vm.heap[UpvU].closed = OBJ_VAL(CloC)

(***************************************************************************)
(* Loops whose body declares a function that captures a local of the body. *)
(***************************************************************************)
\* The chunk of a function body  { return a; }  with a its first upvalue.
ReturnUpvalueChunk ==
    CHOOSE k \in 1..Len(Chunks) :
        Chunks[k] = <<I("OP_GET_UPVALUE", 0, <<>>), I("OP_RETURN", 0, <<>>),
                      I("OP_NIL", 0, <<>>), I("OP_RETURN", 0, <<>>)>>

\* fun g() { return a; }
funG == fun("g", <<103>>, <<"a">>, ReturnUpvalueChunk)

\* 1; { var c = true;
\*      for (; c; c = false) { var a = 2; fun g() { return a; } continue; } }
CaptureContinueSource ==
    <<numbers(1),
      Block(<<var("c", true),
              for(none, variable("c"), assign("c", false),
                  Block(<<var("a", number(2)), funG, continue>>))>>)>>

\* 1; { var c = true;
\*      for (; c; c = false) { var a = 2; fun g() { return a; } } }
CaptureBlockSource ==
    <<numbers(1),
      Block(<<var("c", true),
              for(none, variable("c"), assign("c", false),
                  Block(<<var("a", number(2)), funG>>))>>)>>

\* 1; { var c = true;
\*      for (; c; c = false) { var a = 2; { var b = 2; continue; } } }
PlainContinueSource ==
    <<numbers(1),
      Block(<<var("c", true),
              for(none, variable("c"), assign("c", false),
                  Block(<<var("a", number(2)),
                          Block(<<var("b", number(2)), continue>>)>>))>>)>>

CaptureSources == {CaptureContinueSource, CaptureBlockSource, PlainContinueSource}

NextCapture ==
    \/ \E source \in CaptureSources : InterpretSource(source)
    \/ Compile
    \/ Compiled
    \/ Constant
    \/ Nil
    \/ True
    \/ False
    \/ Pop
    \/ GetLocal
    \/ SetLocal
    \/ Jump
    \/ JumpIfFalse
    \/ Loop
    \/ Closure
    \/ CloseUpvalue
    \/ Return

SpecCapture == Init /\ [][NextCapture]_vars

\* C39: between two instructions, every upvalue on vm.openUpvalues refers to
\* a stack slot below stackCount.
OpenUpvaluesBelowTop ==
    Running =>
        \A a \in Addr :
            (\E i \in 1..Len(openList(vm.heap, vm.openUpvalues, 0)) :
                openList(vm.heap, vm.openUpvalues, 0)[i] = a)
            => vm.heap[a].location.index < vm.stackCount

\* The block exit closes the upvalue of the captured local.
BlockExitCloses ==
    [][CloseUpvalue => vm'.openUpvalues = NULL]_vars

(***************************************************************************)
(* The parser's error handling, token by token (compiler.c): the text is a *)
(* sequence of token types as the scanner hands them out, TOKEN_ERROR      *)
(* standing for a character or string the scanner rejects, and TOKEN_EOF   *)
(* following the text for ever.  The grammar is the part of it these       *)
(* tokens reach: variable declarations and expression statements whose     *)
(* expressions are names and assignments.  The parser record carries the   *)
(* fields of the Parser struct and a log of what a compile did: a message  *)
(* written to stderr, the start of a synchronize, a token it skipped and   *)
(* the place where it returned.                                            *)
(***************************************************************************)
MaxTokens == 5

MaxCompiles == 2

TokenTypes ==
    {"TOKEN_VAR", "TOKEN_IDENTIFIER", "TOKEN_EQUAL", "TOKEN_SEMICOLON",
     "TOKEN_ERROR"}

Texts == UNION {[1..n -> TokenTypes] : n \in 0..MaxTokens}

StatementKeywords ==
    {"TOKEN_CLASS", "TOKEN_FUN", "TOKEN_VAR", "TOKEN_FOR", "TOKEN_IF",
     "TOKEN_WHILE", "TOKEN_PRINT", "TOKEN_RETURN"}

logged(p, event) ==
    [p EXCEPT !.log = Append(@, [e |-> event, previous |-> p.previous,
                                 current |-> p.current,
                                 panicMode |-> p.panicMode])]

(* errorAt without its first line: every error writes its message.         *)
errorAtAlways(p) ==
    logged([p EXCEPT !.panicMode = TRUE, !.hadError = TRUE], "message")

errorAt(p) ==
    IF p.panicMode THEN p
    ELSE logged([p EXCEPT !.panicMode = TRUE, !.hadError = TRUE], "message")

scanToken(p) ==
    IF p.pos <= Len(p.text) THEN p.text[p.pos] ELSE "TOKEN_EOF"

RECURSIVE scanned(_)
scanned(p) ==
    LET q == [p EXCEPT !.current = scanToken(p),
                       !.pos = IF p.pos <= Len(p.text) THEN @ + 1 ELSE @]
    IN  IF q.current # "TOKEN_ERROR" THEN q ELSE scanned(errorAt(q))

advance(p) == scanned([p EXCEPT !.previous = p.current])

consumeToken(p, type) ==
    IF p.current = type THEN advance(p) ELSE errorAt(p)

(* parsePrecedence(PREC_ASSIGNMENT): of the tokens of the text only an     *)
(* identifier has a prefix rule (variable), none has an infix rule;        *)
(* namedVariable parses the right-hand side when '=' follows the name.     *)
RECURSIVE parsePrecedence(_)
parsePrecedence(p) ==
    LET a == advance(p)
        named == IF a.current = "TOKEN_EQUAL"
                 THEN parsePrecedence(advance(a))
                 ELSE a
    IN  IF a.previous # "TOKEN_IDENTIFIER" THEN errorAt(a)
        ELSE IF named.current = "TOKEN_EQUAL" THEN errorAt(advance(named))
        ELSE named

parseVarDeclaration(p) ==
    LET name == consumeToken(p, "TOKEN_IDENTIFIER")
        initializer == IF name.current = "TOKEN_EQUAL"
                       THEN parsePrecedence(advance(name))
                       ELSE name
    IN  consumeToken(initializer, "TOKEN_SEMICOLON")

parseExpressionStatement(p) ==
    consumeToken(parsePrecedence(p), "TOKEN_SEMICOLON")

RECURSIVE skipped(_)
skipped(p) ==
    IF p.current = "TOKEN_EOF" THEN logged(p, "stop")
    ELSE IF p.previous = "TOKEN_SEMICOLON" THEN logged(p, "stop")
    ELSE IF p.current \in StatementKeywords THEN logged(p, "stop")
    ELSE skipped(advance(logged(p, "skip")))

synchronizeTokens(p) ==
    skipped(logged([p EXCEPT !.panicMode = FALSE], "synchronize"))

parseDeclaration(p) ==
    LET after == IF p.current = "TOKEN_VAR"
                 THEN parseVarDeclaration(advance(p))
                 ELSE parseExpressionStatement(p)
    IN  IF after.panicMode THEN synchronizeTokens(after) ELSE after

(* The Parser struct is a static: zeroed when the program starts, and what *)
(* the compile before left in it afterwards.                               *)
InitParser ==
    /\ vm = initVM
    /\ runs = 0
    /\ table = initTable
    /\ amap = <<>>
    /\ chunk = initChunk
    /\ written = <<>>
    /\ \E text \in Texts :
          last = [pc |-> "idle", result |-> "none", compiles |-> 0,
                  p |-> [text |-> text, pos |-> 1, previous |-> "none",
                         current |-> "none", hadError |-> FALSE,
                         panicMode |-> FALSE, log |-> <<>>]]

(* compile up to its loop: a new scanner, the two flags reset, the first   *)
(* advance.                                                                *)
CompileStart ==
    /\ last.pc \in {"idle", "done"}
    /\ last.compiles < MaxCompiles
    /\ last' = [last EXCEPT
                  !.pc = "parsing", !.result = "none", !.compiles = @ + 1,
                  !.p = advance([@ EXCEPT !.pos = 1, !.hadError = FALSE,
                                          !.panicMode = FALSE,
                                          !.log = <<>>])]
    /\ UNCHANGED <<vm, runs, table, amap, chunk, written>>

(* One turn of compile's loop: match(TOKEN_EOF) fails, declaration().      *)
ParseDeclaration ==
    /\ last.pc = "parsing"
    /\ last.p.current # "TOKEN_EOF"
    /\ last' = [last EXCEPT !.p = parseDeclaration(@)]
    /\ UNCHANGED <<vm, runs, table, amap, chunk, written>>

(* The end of compile: match(TOKEN_EOF) succeeds, endCompiler, the return. *)
CompileEnd ==
    /\ last.pc = "parsing"
    /\ last.p.current = "TOKEN_EOF"
    /\ last' = [last EXCEPT
                  !.pc = "done", !.p = advance(@),
                  !.result = IF last.p.hadError THEN "NULL" ELSE "function"]
    /\ UNCHANGED <<vm, runs, table, amap, chunk, written>>

NextParser == CompileStart \/ ParseDeclaration \/ CompileEnd

SpecParser == InitParser /\ [][NextParser]_vars

events(event) == {i \in DOMAIN last.p.log : last.p.log[i].e = event}

HadErrorKept ==
    [][last.pc = "parsing" /\ last.p.hadError => last'.p.hadError]_vars

OneMessagePerPanic ==
    \A i \in events("message") : \A j \in events("message") :
        i < j => \E k \in events("synchronize") : i < k /\ k < j

SynchronizeClears ==
    /\ \A i \in events("synchronize") : ~last.p.log[i].panicMode
    /\ \A j \in events("stop") :
          LET i == CHOOSE k \in events("synchronize") :
                      /\ k < j
                      /\ \A n \in events("synchronize") : n < j => n <= k
          IN  last.p.log[j].panicMode
                 <=> \E k \in events("message") : i < k /\ k < j

SynchronizeStops ==
    /\ \A j \in events("stop") :
          \/ last.p.log[j].previous = "TOKEN_SEMICOLON"
          \/ last.p.log[j].current \in StatementKeywords
          \/ last.p.log[j].current = "TOKEN_EOF"
    /\ \A j \in events("skip") :
          /\ last.p.log[j].previous # "TOKEN_SEMICOLON"
          /\ last.p.log[j].current \notin StatementKeywords
          /\ last.p.log[j].current # "TOKEN_EOF"

NullIffHadError ==
    /\ last.pc = "done" => (last.result = "NULL" <=> last.p.hadError)
    /\ last.pc # "idle" => (last.p.hadError <=> events("message") # {})

PanicAfterSynchronize ==
    \E j \in events("stop") : last.p.log[j].panicMode

====
